---- MODULE Spec2Model ----
(***************************************************************************)
(* Verification model of the ATS backend core:                             *)
(*   - ats/normalize.utils.js        normalizeSkills                       *)
(*   - ats/jdWeight.utils.js         extractWeightedJDSkills               *)
(*   - ats/compareWeighted.utils.js  compareWeightedSkills                 *)
(*   - ats/scoreWeighted.utils.js    calculateWeightedATSScore             *)
(*   - ats/analyzer.utils.js         analyzeResumeQuality / analyzeResume  *)
(*   - ats/simulator.utils.js        simulateATSImprovements               *)
(*   - src/ai/assistant.js           processQuery and its pipeline         *)
(*                                                                         *)
(* JavaScript strings are TLA+ strings (Len, SubSeq and \o work on them).  *)
(* A JavaScript value whose type the code inspects at run time is a        *)
(* tagged record [t |-> <typeof>, v |-> <payload>].  A call that can end   *)
(* in an exception returns an outcome record with a field "threw".         *)
(***************************************************************************)
EXTENDS Integers, Sequences, FiniteSets, TLC

VARIABLES
    pc,             \* position of the call under examination
    skillsArray,    \* normalizeSkills: the argument
    normalized,     \* normalizeSkills: outcome of the first call
    renormalized,   \* normalizeSkills: outcome of the call on its own output
    resumeSkills,   \* compareWeightedSkills: first argument
    coreSkills,     \* compareWeightedSkills: second argument
    optionalSkills, \* compareWeightedSkills: third argument
    comparison,     \* compareWeightedSkills: the returned object
    weightedComparison, \* calculateWeightedATSScore: the argument
    scoreResult,    \* calculateWeightedATSScore: the returned object
    jobText,        \* extractWeightedJDSkills: the argument
    extraction,     \* extractWeightedJDSkills: the returned object
    resumeArg,      \* analyzeResume: first argument (parsedResume)
    jobArg,         \* analyzeResume: second argument (jobDescription)
    analysis,       \* analyzeResume: outcome of the call
    simulatorArg,   \* simulateATSImprovements: the argument
    simulation,     \* simulateATSImprovements: outcome of the call
    queryArg,       \* processQuery: first argument (query)
    atsArg,         \* processQuery: second argument (atsResult)
    trace,          \* processQuery: the steps the call has taken
    domainResult,   \* processQuery: result of validateDomain inside analyzeQuery
    intentResult,   \* processQuery: result of analyzeQuery
    context,        \* processQuery: result of buildContext
    decision,       \* processQuery: result of decide
    response,       \* processQuery: the returned response
    heap,           \* the objects that calls of processQuery return, by reference
    templateArg,    \* renderTemplate: first argument (template)
    dataArg,        \* renderTemplate: second argument (data)
    renderResult,   \* renderTemplate: outcome of the call
    clock,          \* Math.floor(Date.now() / 1000)
    userRefreshToken, \* the refreshToken field of the user's document
    issuedTokens,   \* the refresh tokens that responses have handed to the client
    revokedTokens,  \* the refresh tokens already exchanged or issued before a logout
    refreshCalls,   \* authService.refreshToken: the calls in flight
    authResponse,   \* the last response of POST /auth/refresh
    credits,        \* the credits field of the user's document
    creditLedger,   \* the Credit documents of the user, in creation order
    creditCalls,    \* deductCredits and addCredits: the calls in flight
    deliveries      \* payment notifications handled so far, per payment id

normVars    == <<skillsArray, normalized, renormalized>>
compareVars == <<resumeSkills, coreSkills, optionalSkills, comparison>>
scoreVars   == <<weightedComparison, scoreResult>>
extractVars == <<jobText, extraction>>
analyzeVars == <<resumeArg, jobArg, analysis>>
simulateVars == <<simulatorArg, simulation>>
assistantVars == <<queryArg, atsArg, trace, domainResult, intentResult, context, decision, response, heap>>

renderVars  == <<templateArg, dataArg, renderResult>>
authVars    == <<clock, userRefreshToken, issuedTokens, revokedTokens, refreshCalls, authResponse>>
creditVars  == <<credits, creditLedger, creditCalls, deliveries>>
platformVars == <<renderVars, authVars, creditVars>>

vars == <<pc, normVars, compareVars, scoreVars, extractVars, analyzeVars, simulateVars, assistantVars,
          platformVars>>

\* Value of a variable that the specification at hand does not use.
Idle == [t |-> "idle"]

NormIdle    == skillsArray = Idle /\ normalized = Idle /\ renormalized = Idle
CompareIdle == resumeSkills = Idle /\ coreSkills = Idle /\ optionalSkills = Idle /\ comparison = Idle
ScoreIdle   == weightedComparison = Idle /\ scoreResult = Idle
ExtractIdle == jobText = Idle /\ extraction = Idle
AnalyzeIdle == resumeArg = Idle /\ jobArg = Idle /\ analysis = Idle
SimulateIdle == simulatorArg = Idle /\ simulation = Idle
AssistantIdle ==
    /\ queryArg = Idle /\ atsArg = Idle /\ trace = Idle /\ domainResult = Idle
    /\ intentResult = Idle
    /\ context = Idle /\ decision = Idle /\ response = Idle /\ heap = Idle
RenderIdle  == templateArg = Idle /\ dataArg = Idle /\ renderResult = Idle
AuthIdle ==
    /\ clock = Idle /\ userRefreshToken = Idle /\ issuedTokens = Idle
    /\ revokedTokens = Idle /\ refreshCalls = Idle /\ authResponse = Idle
CreditIdle  == credits = Idle /\ creditLedger = Idle /\ creditCalls = Idle /\ deliveries = Idle
PlatformIdle == RenderIdle /\ AuthIdle /\ CreditIdle

(***************************************************************************)
(* Bounds                                                                  *)
(***************************************************************************)
MaxSkills == 3      \* longest array handed to normalizeSkills
MaxResume == 2      \* longest resumeSkills array handed to compareWeightedSkills
MaxCore == 3        \* longest coreSkills array handed to compareWeightedSkills
MaxOptional == 2    \* longest optionalSkills array handed to compareWeightedSkills
MaxTier == 7        \* longest matched/missing list handed to calculateWeightedATSScore
MaxResumeSkills == 2 \* longest skills array of a parsed resume handed to analyzeResume
MaxSimTier == 2     \* longest matched/missing list handed to simulateATSImprovements
MaxGap == 4         \* most missing core skills of an ATS result handed to processQuery
MaxFragments == 2   \* most fragments joined into a query handed to the intent functions
MaxCallers == 2     \* callers of processQuery at the same time
MaxLines == 2       \* most lines of a job text handed to extractWeightedJDSkills

(***************************************************************************)
(* JavaScript values                                                       *)
(***************************************************************************)
JsStr(s)    == [t |-> "string", v |-> s]
JsNum(n)    == [t |-> "number", v |-> n]
JsArr(a)    == [t |-> "array", v |-> a]
JsNull      == [t |-> "null"]
JsUndefined == [t |-> "undefined"]

IsArray(x)  == x.t = "array"
IsString(x) == x.t = "string"

Returned(val) == [threw |-> FALSE, value |-> val]
Thrown(err)   == [threw |-> TRUE, error |-> err]

\* const x = value; Body(x): JavaScript evaluates value once and binds the
\* result, where a LET definition would stand for the expression itself.
Bind(value, Body(_)) == CHOOSE result \in {Body(x) : x \in {value}} : TRUE

(***************************************************************************)
(* String primitives: String.prototype.trim / toLowerCase / includes       *)
(***************************************************************************)
CharAt(s, i) == SubSeq(s, i, i)

IsSpace(c) == c \in {" ", "\t", "\n"}

UpperToLower ==
    [A |-> "a", B |-> "b", C |-> "c", D |-> "d", E |-> "e", F |-> "f",
     G |-> "g", H |-> "h", I |-> "i", J |-> "j", K |-> "k", L |-> "l",
     M |-> "m", N |-> "n", O |-> "o", P |-> "p", Q |-> "q", R |-> "r",
     S |-> "s", T |-> "t", U |-> "u", V |-> "v", W |-> "w", X |-> "x",
     Y |-> "y", Z |-> "z"]

LowerChar(c) == IF c \in DOMAIN UpperToLower THEN UpperToLower[c] ELSE c

\* Recursion on halves keeps the evaluation depth logarithmic.
RECURSIVE ToLowerCase(_)
ToLowerCase(str) ==
    Bind(str, LAMBDA s :
        IF Len(s) = 0 THEN ""
        ELSE IF Len(s) = 1 THEN LowerChar(s)
        ELSE ToLowerCase(SubSeq(s, 1, Len(s) \div 2))
                 \o ToLowerCase(SubSeq(s, Len(s) \div 2 + 1, Len(s))))

RECURSIVE TrimStart(_)
TrimStart(s) ==
    IF Len(s) > 0 /\ IsSpace(CharAt(s, 1)) THEN TrimStart(SubSeq(s, 2, Len(s)))
    ELSE s

RECURSIVE TrimEnd(_)
TrimEnd(s) ==
    IF Len(s) > 0 /\ IsSpace(CharAt(s, Len(s))) THEN TrimEnd(SubSeq(s, 1, Len(s) - 1))
    ELSE s

Trim(s) == TrimEnd(TrimStart(s))

Includes(s, sub) ==
    \E i \in 1..(Len(s) - Len(sub) + 1) : SubSeq(s, i, i + Len(sub) - 1) = sub

(***************************************************************************)
(* Skill Normalizer (ats/normalize.utils.js)                               *)
(***************************************************************************)
SKILL_ALIASES ==
    ("js" :> "JavaScript") @@
    ("javascript" :> "JavaScript") @@
    ("ecmascript" :> "JavaScript") @@
    ("ts" :> "TypeScript") @@
    ("typescript" :> "TypeScript") @@
    ("node" :> "Node.js") @@
    ("nodejs" :> "Node.js") @@
    ("node.js" :> "Node.js") @@
    ("react" :> "React") @@
    ("reactjs" :> "React") @@
    ("react.js" :> "React") @@
    ("vue" :> "Vue.js") @@
    ("vuejs" :> "Vue.js") @@
    ("vue.js" :> "Vue.js") @@
    ("angular" :> "Angular") @@
    ("angularjs" :> "Angular") @@
    ("angular.js" :> "Angular") @@
    ("express" :> "Express.js") @@
    ("expressjs" :> "Express.js") @@
    ("express.js" :> "Express.js") @@
    ("next" :> "Next.js") @@
    ("nextjs" :> "Next.js") @@
    ("next.js" :> "Next.js") @@
    ("mongo" :> "MongoDB") @@
    ("mongodb" :> "MongoDB") @@
    ("mongo db" :> "MongoDB") @@
    ("postgres" :> "PostgreSQL") @@
    ("postgresql" :> "PostgreSQL") @@
    ("psql" :> "PostgreSQL") @@
    ("mysql" :> "MySQL") @@
    ("my sql" :> "MySQL") @@
    ("python" :> "Python") @@
    ("py" :> "Python") @@
    ("java" :> "Java") @@
    ("c++" :> "C++") @@
    ("cpp" :> "C++") @@
    ("cplusplus" :> "C++") @@
    ("c#" :> "C#") @@
    ("csharp" :> "C#") @@
    ("c sharp" :> "C#") @@
    ("docker" :> "Docker") @@
    ("dockerfile" :> "Docker") @@
    ("kubernetes" :> "Kubernetes") @@
    ("k8s" :> "Kubernetes") @@
    ("kube" :> "Kubernetes") @@
    ("aws" :> "AWS") @@
    ("amazon web services" :> "AWS") @@
    ("azure" :> "Azure") @@
    ("microsoft azure" :> "Azure") @@
    ("gcp" :> "Google Cloud") @@
    ("google cloud" :> "Google Cloud") @@
    ("google cloud platform" :> "Google Cloud") @@
    ("git" :> "Git") @@
    ("github" :> "GitHub") @@
    ("gitlab" :> "GitLab") @@
    ("html" :> "HTML") @@
    ("html5" :> "HTML") @@
    ("css" :> "CSS") @@
    ("css3" :> "CSS") @@
    ("sql" :> "SQL") @@
    ("structured query language" :> "SQL") @@
    ("nosql" :> "NoSQL") @@
    ("no sql" :> "NoSQL") @@
    ("rest" :> "REST API") @@
    ("rest api" :> "REST API") @@
    ("restful" :> "RESTful") @@
    ("restful api" :> "REST API") @@
    ("graphql" :> "GraphQL") @@
    ("graph ql" :> "GraphQL") @@
    ("ci/cd" :> "CI/CD") @@
    ("cicd" :> "CI/CD") @@
    ("continuous integration" :> "CI/CD") @@
    ("ml" :> "Machine Learning") @@
    ("machine learning" :> "Machine Learning") @@
    ("ai" :> "AI") @@
    ("artificial intelligence" :> "Artificial Intelligence") @@
    ("redux" :> "Redux") @@
    ("redux toolkit" :> "Redux") @@
    ("tailwind" :> "Tailwind CSS") @@
    ("tailwindcss" :> "Tailwind CSS") @@
    ("tailwind css" :> "Tailwind CSS")

\* Properties every object literal inherits from Object.prototype.
ObjectPrototypeKeys ==
    {"constructor", "__proto__", "hasOwnProperty", "isPrototypeOf",
     "propertyIsEnumerable", "toLocaleString", "toString", "valueOf",
     "__defineGetter__", "__defineSetter__", "__lookupGetter__",
     "__lookupSetter__"}

\* obj[key] on a plain object literal: own property, else inherited member,
\* else undefined.
GetProperty(obj, key) ==
    IF key \in DOMAIN obj THEN JsStr(obj[key])
    ELSE IF key \in ObjectPrototypeKeys THEN [t |-> "function", v |-> key]
    ELSE JsUndefined

Truthy(x) ==
    CASE x.t = "string"    -> x.v # ""
      [] x.t = "number"    -> x.v # 0
      [] x.t = "boolean"   -> x.v
      [] x.t = "null"      -> FALSE
      [] x.t = "undefined" -> FALSE
      [] OTHER             -> TRUE

\* skill => typeof skill === 'string' && skill.trim() !== ''
IsValidSkill(skill) == IsString(skill) /\ Trim(skill.v) # ""

\* SKILL_ALIASES[lowerSkill] || trimmedSkill
CanonicalSkill(trimmedSkill) ==
    LET aliased == GetProperty(SKILL_ALIASES, ToLowerCase(trimmedSkill))
    IN  IF Truthy(aliased) THEN aliased ELSE JsStr(trimmedSkill)

\* The forEach body of normalizeSkills, from element i on; normalizedSet is
\* the Set of lowercase canonical names, normalizedSkills the output so far.
RECURSIVE NormalizeFrom(_, _, _, _)
NormalizeFrom(validSkills, i, normalizedSet, normalizedSkills) ==
    IF i > Len(validSkills) THEN Returned(normalizedSkills)
    ELSE LET canonicalSkill == CanonicalSkill(Trim(validSkills[i].v))
         IN  IF ~IsString(canonicalSkill)
             THEN Thrown("TypeError: canonicalSkill.toLowerCase is not a function")
             ELSE LET canonicalLower == ToLowerCase(canonicalSkill.v)
                  IN  IF canonicalLower \in normalizedSet
                      THEN NormalizeFrom(validSkills, i + 1, normalizedSet, normalizedSkills)
                      ELSE NormalizeFrom(validSkills, i + 1,
                                         normalizedSet \cup {canonicalLower},
                                         Append(normalizedSkills, canonicalSkill.v))

normalizeSkills(arg) ==
    IF ~IsArray(arg) THEN Returned(<<>>)
    ELSE NormalizeFrom(SelectSeq(arg.v, IsValidSkill), 1, {}, <<>>)

\* A list of strings as the JavaScript array the next call receives.
AsJsArray(strs) == JsArr([i \in 1..Len(strs) |-> JsStr(strs[i])])

(***************************************************************************)
(* SpecNormalize: one call of normalizeSkills, then a second call on the   *)
(* array the first one returned.                                           *)
(***************************************************************************)
SkillTokens ==
    {JsStr("js"), JsStr("JavaScript"), JsStr("  javascript "), JsStr("k8s"),
     JsStr("Rust"), JsStr(" rust "), JsStr("RUST"), JsStr(""), JsStr("  "),
     JsStr("constructor"), JsNull, JsNum(7)}

NonArrays == {JsNull, JsUndefined, JsStr("JavaScript"), JsNum(7), [t |-> "object"]}

SeqsUpTo(S, n) == UNION {[1..k -> S] : k \in 0..n}

InitNormalize ==
    /\ pc = "normalize"
    /\ skillsArray \in {JsArr(a) : a \in SeqsUpTo(SkillTokens, MaxSkills)} \cup NonArrays
    /\ normalized = Idle
    /\ renormalized = Idle
    /\ CompareIdle /\ ScoreIdle /\ ExtractIdle /\ AnalyzeIdle /\ SimulateIdle /\ PlatformIdle
    /\ AssistantIdle

NormalizeSkills ==
    /\ pc = "normalize"
    /\ normalized' = normalizeSkills(skillsArray)
    /\ pc' = IF normalized'.threw THEN "done" ELSE "renormalize"
    /\ UNCHANGED <<skillsArray, renormalized>>
    /\ UNCHANGED <<compareVars, scoreVars, extractVars, analyzeVars, simulateVars, assistantVars, platformVars>>

NormalizeAgain ==
    /\ pc = "renormalize"
    /\ renormalized' = normalizeSkills(AsJsArray(normalized.value))
    /\ pc' = "done"
    /\ UNCHANGED <<skillsArray, normalized>>
    /\ UNCHANGED <<compareVars, scoreVars, extractVars, analyzeVars, simulateVars, assistantVars, platformVars>>

NextNormalize == NormalizeSkills \/ NormalizeAgain

SpecNormalize == InitNormalize /\ [][NextNormalize]_vars

(***************************************************************************)
(* Job-Description Skill Extractor (ats/jdWeight.utils.js)                 *)
(***************************************************************************)
SKILL_LIST ==
    <<"JavaScript", "Python", "Java", "C++", "C#", "TypeScript",
      "PHP", "Ruby", "Rust", "Swift", "Kotlin", "Scala",
      "MATLAB", "Perl", "Dart", "React", "Angular", "Vue",
      "Vue.js", "Svelte", "Next.js", "Nuxt.js", "HTML", "CSS",
      "SASS", "SCSS", "Tailwind CSS", "Bootstrap", "jQuery", "Webpack",
      "Vite", "Redux", "MobX", "Gatsby", "Node.js", "Express",
      "Express.js", "Django", "Flask", "FastAPI", "Spring Boot", "Spring",
      "ASP.NET", ".NET", "Laravel", "Rails", "Ruby on Rails", "NestJS",
      "Fastify", "Koa", "MongoDB", "MySQL", "PostgreSQL", "SQL",
      "NoSQL", "SQLite", "Redis", "Cassandra", "DynamoDB", "Firebase",
      "Firestore", "Oracle", "SQL Server", "MariaDB", "Elasticsearch", "CouchDB",
      "AWS", "Azure", "Google Cloud", "GCP", "Docker", "Kubernetes",
      "Jenkins", "CI/CD", "Terraform", "Ansible", "Chef", "Puppet",
      "CircleCI", "Travis CI", "GitLab CI", "Heroku", "Vercel", "Netlify",
      "DigitalOcean", "Git", "GitHub", "GitLab", "Bitbucket", "SVN",
      "Mercurial", "Jest", "Mocha", "Chai", "Jasmine", "Cypress",
      "Selenium", "Playwright", "JUnit", "PyTest", "unittest", "Postman",
      "TestNG", "React Native", "Flutter", "Android", "iOS", "Xamarin",
      "Ionic", "Machine Learning", "Deep Learning", "TensorFlow", "PyTorch", "Keras",
      "Scikit-learn", "Pandas", "NumPy", "Data Analysis", "Data Science", "Artificial Intelligence",
      "NLP", "Computer Vision", "OpenCV", "GraphQL", "REST API", "RESTful",
      "Microservices", "Agile", "Scrum", "JIRA", "Confluence", "Linux",
      "Unix", "Bash", "Shell Scripting", "OAuth", "JWT", "WebSockets",
      "Socket.io", "RabbitMQ", "Kafka", "API", "JSON", "XML",
      "YAML", "Nginx", "Apache">>

CORE_KEYWORDS ==
    <<"must have", "required", "essential", "mandatory",
      "necessary", "critical", "need to have", "must know",
      "expertise in", "proficiency in", "experience with", "strong knowledge",
      "required skills", "requirements", "qualifications">>

OPTIONAL_KEYWORDS ==
    <<"good to have", "nice to have", "optional", "plus",
      "bonus", "preferred", "desirable", "advantage",
      "beneficial", "would be a plus", "nice if you have", "additional skills",
      "preferred qualifications">>

\* \w of a JavaScript regular expression.
WordChars ==
    LET w == "abcdefghijklmnopqrstuvwxyzABCDEFGHIJKLMNOPQRSTUVWXYZ0123456789_"
    IN  {SubSeq(w, i, i) : i \in 1..Len(w)}

\* \b at the gap before position i of s (1 <= i <= Len(s) + 1): exactly one
\* of the two neighbouring characters is a word character.
WordBoundary(s, i) ==
    LET before == i > 1 /\ CharAt(s, i - 1) \in WordChars
        after  == i <= Len(s) /\ CharAt(s, i) \in WordChars
    IN  before # after

\* skill.toLowerCase() for every term of SKILL_LIST.
LowerSkills == [k \in 1..Len(SKILL_LIST) |-> ToLowerCase(SKILL_LIST[k])]

\* new RegExp(`\\b${escapeRegex(word)}\\b`, 'i').test(line): word is
\* lowercase and escaped, so it matches itself literally in any letter
\* case, that is, literally in the lowercased line.
TestWholeWord(word, lowerLine) ==
    \E i \in 1..(Len(lowerLine) - Len(word) + 1) :
        /\ SubSeq(lowerLine, i, i + Len(word) - 1) = word
        /\ WordBoundary(lowerLine, i)
        /\ WordBoundary(lowerLine, i + Len(word))

\* jdText.split(/\n|\./): the pieces between consecutive separators.
SplitPieces(text) ==
    Bind({i \in 1..Len(text) : CharAt(text, i) \in {"\n", "."}}, LAMBDA seps :
        LET cut(k) == IF k = 0 THEN 0
                      ELSE IF k > Cardinality(seps) THEN Len(text) + 1
                      ELSE CHOOSE i \in seps : Cardinality({j \in seps : j < i}) = k - 1
        IN  [k \in 1..(Cardinality(seps) + 1) |->
                SubSeq(text, cut(k - 1) + 1, cut(k) - 1)])

\* .map(line => line.trim()).filter(line => line)
SplitLines(text) ==
    Bind(SplitPieces(text), LAMBDA pieces :
        SelectSeq([i \in 1..Len(pieces) |-> Trim(pieces[i])], LAMBDA line : line # ""))

\* keywords.some(keyword => lowerLine.includes(keyword))
SomeIncluded(keywords, lowerLine) ==
    \E k \in 1..Len(keywords) : Includes(lowerLine, keywords[k])

\* Set.prototype.add on a Set kept as the sequence of its insertion order.
SetAdd(set, x) == IF \E i \in 1..Len(set) : set[i] = x THEN set ELSE Append(set, x)

\* set.add(x) for each x of xs in turn: the elements of xs that are not in
\* the set yet are appended, each once, in the order of xs.
SetAddAll(set, xs) ==
    Bind(SelectSeq([j \in 1..Len(xs) |-> j], LAMBDA j :
             /\ ~\E i \in 1..Len(set) : set[i] = xs[j]
             /\ ~\E i \in 1..(j - 1) : xs[i] = xs[j]),
         LAMBDA fresh : set \o [n \in 1..Len(fresh) |-> xs[fresh[n]]])

\* The skills of three or more characters found in the line as whole
\* words, in SKILL_LIST order.
FoundSkills(lowerLine) ==
    Bind(SelectSeq([k \in 1..Len(SKILL_LIST) |-> k], LAMBDA k :
             /\ Len(LowerSkills[k]) >= 3
             /\ TestWholeWord(LowerSkills[k], lowerLine)),
         LAMBDA hits : [j \in 1..Len(hits) |-> SKILL_LIST[hits[j]]])

\* Mutant of ScanSkills: a line with both contexts counts as optional.
ScanSkills_OptionalFirst(lowerLine, isCoreContext, isOptionalContext, sets) ==
    Bind(FoundSkills(lowerLine), LAMBDA found :
        [core     |-> IF isCoreContext /\ ~isOptionalContext
                      THEN SetAddAll(sets.core, found) ELSE sets.core,
         optional |-> IF isOptionalContext
                      THEN SetAddAll(sets.optional, found) ELSE sets.optional,
         all      |-> SetAddAll(sets.all, found)])

\* The SKILL_LIST.forEach body for one line: the skills found go to the
\* all set and to the set of the line's context, core before optional.
ScanSkills(lowerLine, isCoreContext, isOptionalContext, sets) ==
    Bind(FoundSkills(lowerLine), LAMBDA found :
        [core     |-> IF isCoreContext THEN SetAddAll(sets.core, found) ELSE sets.core,
         optional |-> IF ~isCoreContext /\ isOptionalContext
                      THEN SetAddAll(sets.optional, found) ELSE sets.optional,
         all      |-> SetAddAll(sets.all, found)])

\* The lines.forEach loop, from line n on.
RECURSIVE ScanLines(_, _, _)
ScanLines(lines, n, sets) ==
    IF n > Len(lines) THEN sets
    ELSE Bind(ToLowerCase(lines[n]), LAMBDA lowerLine :
         Bind(ScanSkills(lowerLine,
                         SomeIncluded(CORE_KEYWORDS, lowerLine),
                         SomeIncluded(OPTIONAL_KEYWORDS, lowerLine),
                         sets),
              LAMBDA scanned : ScanLines(lines, n + 1, scanned)))

\* Mutant of extractWeightedJDSkills: all detected skills become core as
\* soon as no line gave a core skill.
extractWeightedJDSkills_FallbackWhenNoCore(jdText) ==
    IF ~Truthy(jdText) \/ ~IsString(jdText)
    THEN [coreSkills |-> <<>>, optionalSkills |-> <<>>]
    ELSE Bind(SplitLines(jdText.v), LAMBDA lines :
         Bind(ScanLines(lines, 1, [core |-> <<>>, optional |-> <<>>, all |-> <<>>]),
              LAMBDA sets :
                  [coreSkills |->
                       IF Len(sets.core) = 0 /\ Len(sets.all) > 0
                       THEN sets.all ELSE sets.core,
                   optionalSkills |->
                       SelectSeq(sets.optional, LAMBDA skill :
                           ~\E i \in 1..Len(sets.core) : sets.core[i] = skill)]))

extractWeightedJDSkills(jdText) ==
    IF ~Truthy(jdText) \/ ~IsString(jdText)
    THEN [coreSkills |-> <<>>, optionalSkills |-> <<>>]
    ELSE Bind(SplitLines(jdText.v), LAMBDA lines :
         Bind(ScanLines(lines, 1, [core |-> <<>>, optional |-> <<>>, all |-> <<>>]),
              LAMBDA sets :
                  [coreSkills |->
                       IF Len(sets.core) = 0 /\ Len(sets.optional) = 0 /\ Len(sets.all) > 0
                       THEN sets.all ELSE sets.core,
                   optionalSkills |->
                       SelectSeq(sets.optional, LAMBDA skill :
                           ~\E i \in 1..Len(sets.core) : sets.core[i] = skill)]))

(***************************************************************************)
(* One call of extractWeightedJDSkills.                                    *)
(***************************************************************************)
ExtractWeightedJDSkills ==
    /\ pc = "extract"
    /\ extraction' = extractWeightedJDSkills(jobText)
    /\ pc' = "extracted"
    /\ UNCHANGED jobText
    /\ UNCHANGED <<normVars, compareVars, scoreVars, analyzeVars, simulateVars, assistantVars, platformVars>>

(***************************************************************************)
(* Weighted Comparator (ats/compareWeighted.utils.js)                      *)
(***************************************************************************)
\* Mutant of normalizeSkill: the comparison key keeps its letter case.
normalizeSkill_CaseSensitive(skill) ==
    IF ~IsString(skill) THEN "" ELSE Trim(skill.v)

\* Mutant of normalizeSkill: the comparison key is the lowercase canonical
\* name that SKILL_ALIASES gives the skill.
normalizeSkill_Aliased(skill) ==
    IF ~IsString(skill) THEN "" ELSE ToLowerCase(CanonicalSkill(Trim(skill.v)).v)

\* normalizeSkill: lowercase, trimmed; '' for a non-string.
normalizeSkill(skill) ==
    IF ~IsString(skill) THEN "" ELSE Trim(ToLowerCase(skill.v))

\* normalizeSkillsArray: [] for a non-array; else the non-blank strings, trimmed.
normalizeSkillsArray(arg) ==
    IF ~IsArray(arg) THEN <<>>
    ELSE LET kept == SelectSeq(arg.v, IsValidSkill)
         IN  [i \in 1..Len(kept) |-> Trim(kept[i].v)]

\* The forEach body of compareSkillSets, from element i on.
RECURSIVE CompareFrom(_, _, _, _, _, _, _)
CompareFrom(candidateSet, requiredSkills, i, matched, missing, addedMatched, addedMissing) ==
    IF i > Len(requiredSkills) THEN [matched |-> matched, missing |-> missing]
    ELSE LET skill      == requiredSkills[i]
             normalized_ == normalizeSkill(JsStr(skill))
         IN  IF normalized_ \in candidateSet
             THEN IF normalized_ \notin addedMatched
                  THEN CompareFrom(candidateSet, requiredSkills, i + 1,
                                   Append(matched, skill), missing,
                                   addedMatched \cup {normalized_}, addedMissing)
                  ELSE CompareFrom(candidateSet, requiredSkills, i + 1,
                                   matched, missing, addedMatched, addedMissing)
             ELSE IF normalized_ \notin addedMissing
                  THEN CompareFrom(candidateSet, requiredSkills, i + 1,
                                   matched, Append(missing, skill),
                                   addedMatched, addedMissing \cup {normalized_})
                  ELSE CompareFrom(candidateSet, requiredSkills, i + 1,
                                   matched, missing, addedMatched, addedMissing)

compareSkillSets(candidateSet, requiredSkills) ==
    CompareFrom(candidateSet, requiredSkills, 1, <<>>, <<>>, {}, {})

compareWeightedSkills(resume, core, optional) ==
    LET normalizedResumeSkills   == normalizeSkillsArray(resume)
        normalizedCoreSkills     == normalizeSkillsArray(core)
        normalizedOptionalSkills == normalizeSkillsArray(optional)
        resumeSkillSet == {normalizeSkill(JsStr(normalizedResumeSkills[i])) :
                               i \in 1..Len(normalizedResumeSkills)}
        coreComparison     == compareSkillSets(resumeSkillSet, normalizedCoreSkills)
        optionalComparison == compareSkillSets(resumeSkillSet, normalizedOptionalSkills)
    IN  [matchedCoreSkills     |-> coreComparison.matched,
         missingCoreSkills     |-> coreComparison.missing,
         matchedOptionalSkills |-> optionalComparison.matched,
         missingOptionalSkills |-> optionalComparison.missing]

(***************************************************************************)
(* SpecCompare: one call of compareWeightedSkills.                         *)
(***************************************************************************)
RequirementTokens ==
    {JsStr("React"), JsStr("react "), JsStr("Node.js"), JsStr(" "), JsNull}

ResumeTokens == {JsStr("  REACT"), JsStr("node.js"), JsNum(7)}

NonArraySkills == {JsNull, JsUndefined, JsStr("React")}

InitCompare ==
    /\ pc = "compare"
    /\ resumeSkills \in {JsArr(a) : a \in SeqsUpTo(ResumeTokens, MaxResume)} \cup NonArraySkills
    /\ coreSkills \in {JsArr(a) : a \in SeqsUpTo(RequirementTokens, MaxCore)} \cup NonArraySkills
    /\ optionalSkills \in {JsArr(a) : a \in SeqsUpTo(RequirementTokens, MaxOptional)} \cup NonArraySkills
    /\ comparison = Idle
    /\ NormIdle /\ ScoreIdle /\ ExtractIdle /\ AnalyzeIdle /\ SimulateIdle /\ PlatformIdle
    /\ AssistantIdle

CompareWeightedSkills ==
    /\ pc = "compare"
    /\ comparison' = compareWeightedSkills(resumeSkills, coreSkills, optionalSkills)
    /\ pc' = "compared"
    /\ UNCHANGED <<resumeSkills, coreSkills, optionalSkills>>
    /\ UNCHANGED <<normVars, scoreVars, extractVars, analyzeVars, simulateVars, assistantVars, platformVars>>

NextCompare == CompareWeightedSkills

SpecCompare == InitCompare /\ [][NextCompare]_vars

(***************************************************************************)
(* Score Engine (ats/scoreWeighted.utils.js)                               *)
(*                                                                         *)
(* Scores are JavaScript doubles.  A tier score is kept as the exact       *)
(* fraction num/den and the weights as tenths; Math.round is round half    *)
(* up.  The one place where binary64 arithmetic departs from the exact     *)
(* value is an exact tie x.5 of the 70/30 sum, which some operand pairs    *)
(* evaluate to just below x.5: those pairs (core ratio, optional ratio),   *)
(* for tiers of up to 16 skills, are listed in DoubleTiesBelow.            *)
(***************************************************************************)
\* weightedComparison.<name>, undefined when absent or not an object.
GetField(obj, name) ==
    IF obj.t = "object" /\ name \in DOMAIN obj.v THEN obj.v[name] ELSE JsUndefined

\* Mutant of ArrayOrEmpty: a string is taken for the list of its characters.
ArrayOrEmpty_Unchecked(x) ==
    IF IsArray(x) THEN x.v
    ELSE IF IsString(x) THEN [i \in 1..Len(x.v) |-> CharAt(x.v, i)]
    ELSE <<>>

\* Array.isArray(x) ? x : []
ArrayOrEmpty(x) == IF IsArray(x) THEN x.v ELSE <<>>

RoundHalfUp(num, den) == (2 * num + den) \div (2 * den)

\* <<a, b, c, d>>: with core ratio a/b and optional ratio c/d the double
\* (a/b*100)*0.7 + (c/d*100)*0.3 is below its exact value, a tie.
DoubleTiesBelow ==
    {<<0, 1, 1, 12>>, <<0, 1, 11, 12>>, <<1, 7, 1, 12>>, <<1, 7, 11, 12>>,
     <<1, 12, 2, 9>>, <<1, 14, 1, 12>>, <<1, 14, 11, 12>>, <<2, 7, 1, 4>>,
     <<2, 7, 1, 12>>, <<2, 7, 11, 12>>, <<3, 7, 1, 12>>, <<3, 7, 11, 12>>,
     <<3, 14, 1, 12>>, <<3, 14, 11, 12>>, <<4, 7, 1, 4>>, <<4, 7, 1, 12>>,
     <<4, 7, 3, 4>>, <<4, 7, 5, 12>>, <<4, 7, 7, 12>>, <<4, 7, 11, 12>>,
     <<6, 7, 1, 12>>, <<6, 7, 11, 12>>, <<9, 10, 1, 12>>, <<9, 10, 11, 12>>,
     <<11, 12, 1, 9>>, <<11, 12, 4, 9>>, <<11, 14, 1, 4>>, <<11, 14, 1, 12>>,
     <<11, 14, 11, 12>>, <<13, 16, 3, 16>>}

\* Mutant of TierScore: divides by the number of missing skills.
TierScore_OverMissing(matched, total) ==
    IF total - matched > 0 THEN [num |-> matched * 100, den |-> total - matched]
    ELSE [num |-> 0, den |-> 1]

\* (matched.length / total) * 100, or 0 for an empty tier.
TierScore(matched, total) ==
    IF total > 0 THEN [num |-> matched * 100, den |-> total]
    ELSE [num |-> 0, den |-> 1]

\* Mutant of SelectWeights: the 70/30 weights whatever tiers are present.
SelectWeights_Fixed(totalCoreSkills, totalOptionalSkills) ==
    [core |-> 7, optional |-> 3]

\* coreWeight / optionalWeight in tenths (lines 116-133; the both-empty
\* case returns before the weights are used).
SelectWeights(totalCoreSkills, totalOptionalSkills) ==
    IF totalCoreSkills = 0 THEN [core |-> 0, optional |-> 10]
    ELSE IF totalOptionalSkills = 0 THEN [core |-> 10, optional |-> 0]
    ELSE [core |-> 7, optional |-> 3]

\* Math.round((coreScore * coreWeight) + (optionalScore * optionalWeight))
WeightedRound(coreScore, coreWeight, optionalScore, optionalWeight) ==
    LET exact == RoundHalfUp(coreScore.num * coreWeight * optionalScore.den
                               + optionalScore.num * optionalWeight * coreScore.den,
                             10 * coreScore.den * optionalScore.den)
        below == /\ coreWeight = 7
                 /\ optionalWeight = 3
                 /\ \E e \in DoubleTiesBelow :
                        /\ coreScore.num * e[2] = 100 * e[1] * coreScore.den
                        /\ optionalScore.num * e[4] = 100 * e[3] * optionalScore.den
    IN  IF below THEN exact - 1 ELSE exact

AtLeast(score, n) == score.num >= n * score.den
Positive(score)   == score.num > 0

generateExplanation(atsScore, matchedCore, totalCore, matchedOptional, totalOptional, coreScore, optionalScore) ==
    LET overall ==
            IF atsScore >= 80 THEN "Excellent match! "
            ELSE IF atsScore >= 60 THEN "Good match! "
            ELSE IF atsScore >= 40 THEN "Moderate match. "
            ELSE IF atsScore > 0 THEN "Low match. "
            ELSE "No match found. "
        core ==
            IF totalCore > 0
            THEN "You matched " \o ToString(matchedCore) \o " out of " \o ToString(totalCore)
                 \o " core/required skills ("
                 \o ToString(RoundHalfUp(coreScore.num, coreScore.den)) \o "%). "
                 \o (IF AtLeast(coreScore, 80) THEN "Your core skills are very strong. "
                     ELSE IF AtLeast(coreScore, 60)
                          THEN "Your core skills are good but could be improved. "
                     ELSE IF Positive(coreScore)
                          THEN "You are missing several critical core skills. "
                     ELSE "You do not possess the required core skills. ")
            ELSE ""
        optional ==
            IF totalOptional > 0
            THEN "You matched " \o ToString(matchedOptional) \o " out of "
                 \o ToString(totalOptional) \o " optional/preferred skills ("
                 \o ToString(RoundHalfUp(optionalScore.num, optionalScore.den)) \o "%). "
                 \o (IF AtLeast(optionalScore, 80) THEN "Great bonus skills! "
                     ELSE IF AtLeast(optionalScore, 50) THEN "Good additional skills. "
                     ELSE IF Positive(optionalScore) THEN "Some bonus skills present. "
                     ELSE "")
            ELSE ""
        recommendation ==
            IF atsScore >= 70 THEN "You are a strong candidate for this position."
            ELSE IF atsScore >= 50
                 THEN "Consider highlighting relevant experience or acquiring missing skills."
            ELSE IF atsScore > 0
                 THEN "Significant skill development may be needed for this role."
            ELSE "This position may not align with your current skill set."
    IN  overall \o core \o optional \o recommendation

calculateWeightedATSScore(arg) ==
    IF ~Truthy(arg) \/ arg.t \notin {"object", "array"}
    THEN [atsScore |-> 0, explanation |-> "Invalid comparison data provided."]
    ELSE
    LET matchedCore     == ArrayOrEmpty(GetField(arg, "matchedCoreSkills"))
        missingCore     == ArrayOrEmpty(GetField(arg, "missingCoreSkills"))
        matchedOptional == ArrayOrEmpty(GetField(arg, "matchedOptionalSkills"))
        missingOptional == ArrayOrEmpty(GetField(arg, "missingOptionalSkills"))
        totalCoreSkills     == Len(matchedCore) + Len(missingCore)
        totalOptionalSkills == Len(matchedOptional) + Len(missingOptional)
        coreScore     == TierScore(Len(matchedCore), totalCoreSkills)
        optionalScore == TierScore(Len(matchedOptional), totalOptionalSkills)
    IN  IF totalCoreSkills = 0 /\ totalOptionalSkills = 0
        THEN [atsScore |-> 0,
              explanation |-> "No skills found in the job description to evaluate against."]
        ELSE LET weights  == SelectWeights(totalCoreSkills, totalOptionalSkills)
                 atsScore == WeightedRound(coreScore, weights.core,
                                           optionalScore, weights.optional)
             IN  [atsScore |-> atsScore,
                  explanation |-> generateExplanation(atsScore, Len(matchedCore),
                                      totalCoreSkills, Len(matchedOptional),
                                      totalOptionalSkills, coreScore, optionalScore)]

(***************************************************************************)
(* SpecScore: one call of calculateWeightedATSScore.                       *)
(***************************************************************************)
\* A list of n skills; the engine reads only its length.
SkillList(n) == JsArr([i \in 1..n |-> JsStr("skill")])

ScoreFields == {SkillList(n) : n \in 0..MaxTier} \cup {JsStr("JavaScript"), JsUndefined}

ComparisonObjects ==
    {[t |-> "object",
      v |-> [matchedCoreSkills |-> a, missingCoreSkills |-> b,
             matchedOptionalSkills |-> c, missingOptionalSkills |-> d]] :
         a \in ScoreFields, b \in ScoreFields, c \in ScoreFields, d \in ScoreFields}

NonObjects ==
    {JsNull, JsUndefined, JsStr("JavaScript"), JsNum(7), JsNum(0), JsArr(<<>>),
     [t |-> "object", v |-> [other |-> JsNum(1)]]}

InitScore ==
    /\ pc = "score"
    /\ weightedComparison \in ComparisonObjects \cup NonObjects
    /\ scoreResult = Idle
    /\ NormIdle /\ CompareIdle /\ ExtractIdle /\ AnalyzeIdle /\ SimulateIdle /\ PlatformIdle
    /\ AssistantIdle

CalculateWeightedATSScore ==
    /\ pc = "score"
    /\ scoreResult' = calculateWeightedATSScore(weightedComparison)
    /\ pc' = "scored"
    /\ UNCHANGED weightedComparison
    /\ UNCHANGED <<normVars, compareVars, extractVars, analyzeVars, simulateVars, assistantVars, platformVars>>

NextScore == CalculateWeightedATSScore

SpecScore == InitScore /\ [][NextScore]_vars

(***************************************************************************)
(* Feedback Generator (ats/feedback.utils.js)                              *)
(***************************************************************************)
\* Array.prototype.join(', ')
RECURSIVE JoinComma(_)
JoinComma(strs) ==
    IF Len(strs) = 0 THEN ""
    ELSE IF Len(strs) = 1 THEN strs[1]
    ELSE strs[1] \o ", " \o JoinComma(Tail(strs))

\* Array.prototype.slice(0, n)
Slice(s, n) == SubSeq(s, 1, IF Len(s) < n THEN Len(s) ELSE n)

generateSummary(atsScore, matchedCoreSkills, missingCoreSkills) ==
    LET totalCoreSkills == Len(matchedCoreSkills) + Len(missingCoreSkills)
        coreSkillsMatchRate ==
            IF totalCoreSkills > 0
            THEN RoundHalfUp(Len(matchedCoreSkills) * 100, totalCoreSkills)
            ELSE 0
    IN  IF atsScore >= 80
        THEN "Excellent match! Your resume scores " \o ToString(atsScore)
             \o "% and includes " \o ToString(Len(matchedCoreSkills)) \o " of "
             \o ToString(totalCoreSkills)
             \o " essential skills. You're in a strong position for this role."
        ELSE IF atsScore >= 60
        THEN "Good match with room for improvement. Your resume scores "
             \o ToString(atsScore) \o "% and covers " \o ToString(coreSkillsMatchRate)
             \o "% of the core requirements. Adding a few key skills could significantly strengthen your application."
        ELSE IF atsScore >= 40
        THEN "Moderate match. Your resume scores " \o ToString(atsScore)
             \o "% and is missing some important qualifications. Consider highlighting relevant experience or developing key skills before applying."
        ELSE "Limited match. Your resume scores " \o ToString(atsScore)
             \o "% and lacks several essential requirements for this position. Significant skill development may be needed to qualify for this role."

generateRecommendations(atsScore, missingCoreSkills, missingOptionalSkills, matchedCoreSkills, matchedOptionalSkills) ==
    LET critical ==
            IF Len(missingCoreSkills) = 0 THEN <<>>
            ELSE IF Len(missingCoreSkills) = 1
            THEN <<"Add \"" \o missingCoreSkills[1]
                   \o "\" to your resume - this is a critical requirement for the role.">>
            ELSE IF Len(missingCoreSkills) <= 3
            THEN <<"Include these essential skills in your resume: "
                   \o JoinComma(missingCoreSkills)
                   \o ". These are core requirements that hiring managers look for.">>
            ELSE <<"Focus on adding these critical skills first: "
                   \o JoinComma(Slice(missingCoreSkills, 3)) \o ". You're also missing "
                   \o ToString(Len(missingCoreSkills) - 3) \o " other core requirements.">>
        broader ==
            IF atsScore < 40 /\ Len(missingCoreSkills) > 3
            THEN <<"Consider gaining experience in the core areas where you're lacking qualifications before applying. This will significantly improve your chances.">>
            ELSE <<>>
        highlight ==
            IF Len(matchedCoreSkills) > 0 /\ atsScore < 70
            THEN <<"Make sure your existing skills ("
                   \o JoinComma(Slice(matchedCoreSkills, 3))
                   \o ") are prominently featured in your resume summary and work experience.">>
            ELSE <<>>
        optional ==
            IF Len(missingOptionalSkills) > 0 /\ Len(missingCoreSkills) < 3
            THEN IF Len(missingOptionalSkills) <= 2
                 THEN <<"To stand out from other candidates, consider adding: "
                        \o JoinComma(missingOptionalSkills) \o ".">>
                 ELSE <<"To strengthen your application further, consider highlighting these additional skills if you have them: "
                        \o JoinComma(Slice(missingOptionalSkills, 2)) \o ".">>
            ELSE <<>>
        keywords ==
            IF atsScore >= 60 /\ atsScore < 80
            THEN <<"Use industry-standard terms and keywords naturally throughout your resume to improve visibility in applicant tracking systems.">>
            ELSE <<>>
        aligned ==
            IF atsScore >= 80
            THEN <<"Your resume is well-aligned with the job requirements. Ensure your experience section provides specific examples of how you've applied these skills.">>
            ELSE <<>>
        recommendations ==
            critical \o broader \o highlight \o optional \o keywords \o aligned
    IN  IF Len(recommendations) = 0
        THEN <<"Review the job description carefully and tailor your resume to emphasize relevant experience and accomplishments.">>
        ELSE recommendations

\* weightedResult carries atsScore and the four lists of the comparison.
generateATSFeedback(atsScore, skillComparison) ==
    [summary |-> generateSummary(atsScore, skillComparison.matchedCoreSkills,
                                 skillComparison.missingCoreSkills),
     recommendations |->
         generateRecommendations(atsScore, skillComparison.missingCoreSkills,
                                 skillComparison.missingOptionalSkills,
                                 skillComparison.matchedCoreSkills,
                                 skillComparison.matchedOptionalSkills)]

(***************************************************************************)
(* Resume Analyzer (ats/analyzer.utils.js): analyzeResumeQuality and       *)
(* analyzeResume                                                           *)
(***************************************************************************)
WEAK_VERBS ==
    <<"worked", "helped", "assisted", "responsible for", "handled", "made",
      "did", "got", "used", "tried">>

\* lowerText.match(new RegExp(`\\b${verb}\\b`, 'gi')): the number of matches.
CountWholeWord(verb, lowerText) ==
    Cardinality({i \in 1..(Len(lowerText) - Len(verb) + 1) :
                    /\ SubSeq(lowerText, i, i + Len(verb) - 1) = verb
                    /\ WordBoundary(lowerText, i)
                    /\ WordBoundary(lowerText, i + Len(verb))})

\* The WEAK_VERBS.forEach loop, from verb k on.
RECURSIVE WeakVerbCount(_, _)
WeakVerbCount(lowerText, k) ==
    IF k > Len(WEAK_VERBS) THEN 0
    ELSE CountWholeWord(WEAK_VERBS[k], lowerText) + WeakVerbCount(lowerText, k + 1)

\* x && x.length > 0
NonEmpty(x) == Truthy(x) /\ x.t \in {"array", "string"} /\ Len(x.v) > 0

\* Math.min(100, Math.round((totalSectionScore / 40) * 100)); the quotient
\* of a multiple of 5 by 40 is exact in binary64.
QualityScore(totalSectionScore) ==
    LET rounded == RoundHalfUp(totalSectionScore * 100, 40)
    IN  IF rounded > 100 THEN 100 ELSE rounded

analyzeResumeQuality(resume) ==
    LET personalInfo == GetField(resume, "personalInfo")
        experience   == GetField(resume, "experience")
        education    == GetField(resume, "education")
        summary      == GetField(resume, "summary")
        projects     == GetField(resume, "projects")
        rawText      == GetField(resume, "rawText")
    IN  IF personalInfo.t \in {"undefined", "null"}
        THEN Thrown("TypeError: Cannot read properties of " \o personalInfo.t
                    \o " (reading 'email')")
        ELSE
        Bind(IF Truthy(rawText) THEN ToLowerCase(rawText.v) ELSE "", LAMBDA lowerText :
        Bind(WeakVerbCount(lowerText, 1), LAMBDA weakVerbCount :
        LET hasEmail    == Truthy(GetField(personalInfo, "email"))
            hasPhone    == Truthy(GetField(personalInfo, "phone"))
            hasLinkedin == Truthy(GetField(personalInfo, "linkedin"))
            sections ==
                [contact    |-> (IF hasEmail THEN 5 ELSE 0) + (IF hasPhone THEN 5 ELSE 0)
                                + (IF hasLinkedin THEN 5 ELSE 0),
                 summary    |-> IF NonEmpty(summary) THEN 5 ELSE 0,
                 experience |-> IF NonEmpty(experience) THEN 10 ELSE 0,
                 education  |-> IF NonEmpty(education) THEN 5 ELSE 0,
                 projects   |-> IF NonEmpty(projects) THEN 5 ELSE 0]
            issues ==
                (IF hasEmail THEN <<>>
                 ELSE <<[type |-> "critical", message |-> "Missing email address"]>>)
                \o (IF hasPhone THEN <<>>
                    ELSE <<[type |-> "warning", message |-> "Missing phone number"]>>)
                \o (IF NonEmpty(experience) THEN <<>>
                    ELSE <<[type |-> "critical", message |-> "Missing Experience section"]>>)
                \o (IF NonEmpty(education) THEN <<>>
                    ELSE <<[type |-> "warning", message |-> "Missing Education section"]>>)
            improvements ==
                (IF hasLinkedin THEN <<>>
                 ELSE <<"Adding a LinkedIn profile link is recommended">>)
                \o (IF NonEmpty(summary) THEN <<>>
                    ELSE <<"Consider adding a professional summary">>)
                \o (IF weakVerbCount > 3
                    THEN <<"Found " \o ToString(weakVerbCount)
                           \o " weak action verbs (e.g., \"" \o WEAK_VERBS[1]
                           \o "\"). Replace with strong alternatives like \"Engineered\", \"Optimized\", \"Spearheaded\".">>
                    ELSE <<>>)
            totalSectionScore == sections.contact + sections.summary
                                 + sections.experience + sections.education
                                 + sections.projects
        IN  Returned([score        |-> QualityScore(totalSectionScore),
                      sections     |-> sections,
                      issues       |-> issues,
                      improvements |-> improvements])))

\* <<skillScore, qualityScore>> for which the double
\* skillScore * 0.7 + qualityScore * 0.3 is below its exact value, a tie
\* x.5; qualityScore ranges over the values QualityScore can take.
BlendTiesBelow ==
    {<<28, 13>>, <<38, 13>>, <<45, 0>>, <<48, 13>>, <<48, 63>>, <<53, 38>>,
     <<53, 88>>, <<58, 13>>, <<58, 63>>, <<63, 38>>, <<68, 13>>, <<73, 38>>,
     <<78, 13>>, <<85, 0>>}

\* Math.round((skillScore * SKILL_WEIGHT) + (qualityScore * QUALITY_WEIGHT))
BlendRound(skillScore, qualityScore) ==
    LET exact == RoundHalfUp(7 * skillScore + 3 * qualityScore, 10)
    IN  IF <<skillScore, qualityScore>> \in BlendTiesBelow THEN exact - 1 ELSE exact

\* Mutant of GatedScore: the gate leaves the blended score as it is.
GatedScore_Uncapped(rounded) == rounded

\* Math.min(Math.round(weightedScore), 15)
GatedScore(rounded) == IF rounded < 15 THEN rounded ELSE 15

RelevanceOverride ==
    "Your resume has poor alignment with this job description. Even with good formatting, the lack of core keywords prevents a passing score."

ScoreLabel(finalScore) ==
    IF finalScore >= 80 THEN "Excellent Match"
    ELSE IF finalScore >= 60 THEN "Good Match"
    ELSE IF finalScore >= 40 THEN "Fair Match"
    ELSE "Needs Work"

\* A comparison result as the object handed to calculateWeightedATSScore.
ComparisonObject(c) ==
    [t |-> "object",
     v |-> [matchedCoreSkills     |-> AsJsArray(c.matchedCoreSkills),
            missingCoreSkills     |-> AsJsArray(c.missingCoreSkills),
            matchedOptionalSkills |-> AsJsArray(c.matchedOptionalSkills),
            missingOptionalSkills |-> AsJsArray(c.missingOptionalSkills)]]

analyzeResume(resume, jobDescription) ==
    Bind(extractWeightedJDSkills(jobDescription), LAMBDA jdSkills :
    IF resume.t \in {"undefined", "null"}
    THEN Thrown("TypeError: Cannot read properties of " \o resume.t
                \o " (reading 'skills')")
    ELSE
    Bind(compareWeightedSkills(IF Truthy(GetField(resume, "skills"))
                               THEN GetField(resume, "skills") ELSE JsArr(<<>>),
                               AsJsArray(jdSkills.coreSkills),
                               AsJsArray(jdSkills.optionalSkills)),
         LAMBDA skillComparison :
    Bind(calculateWeightedATSScore(ComparisonObject(skillComparison)),
         LAMBDA skillResult :
    Bind(analyzeResumeQuality(resume), LAMBDA qualityOutcome :
    IF qualityOutcome.threw THEN qualityOutcome
    ELSE
    Bind(generateATSFeedback(skillResult.atsScore, skillComparison),
         LAMBDA skillFeedback :
    LET qualityAnalysis == qualityOutcome.value
        rounded == BlendRound(skillResult.atsScore, qualityAnalysis.score)
        gated   == skillResult.atsScore < 10
        finalScore == IF gated THEN GatedScore(rounded) ELSE rounded
        scoreLabel == IF gated THEN "Not Relevant" ELSE ScoreLabel(finalScore)
    IN  Returned(
          [success      |-> TRUE,
           score        |-> finalScore,
           scoreLabel   |-> scoreLabel,
           skillScore   |-> skillResult.atsScore,
           qualityScore |-> qualityAnalysis.score,
           skills |-> [matched |-> skillComparison.matchedCoreSkills
                                   \o skillComparison.matchedOptionalSkills,
                       missing |-> skillComparison.missingCoreSkills,
                       coreMatches     |-> skillComparison.matchedCoreSkills,
                       optionalMatches |-> skillComparison.matchedOptionalSkills],
           quality |-> qualityAnalysis,
           feedback |-> [summary |-> IF gated THEN RelevanceOverride
                                     ELSE skillFeedback.summary,
                         skillRecommendations |-> skillFeedback.recommendations,
                         improvements   |-> qualityAnalysis.improvements,
                         criticalIssues |-> qualityAnalysis.issues]]))))))

(***************************************************************************)
(* SpecAnalyze: one call of analyzeResume.                                 *)
(***************************************************************************)
JobDescriptions ==
    {JsStr("Required: React and Python.\nNice to have: Docker, AWS, Redis, Kafka"),
     JsStr("We use React, Docker"),
     JsStr("Must have: Python"),
     JsStr("Required: React.\nNice to have: Docker, AWS"),
     JsStr("Nice to have: Docker, AWS"),
     JsStr("Great team, free lunch"),
     JsNull, JsNum(7)}

ResumeSkillTokens == {JsStr("react"), JsStr("Docker ")}

Lines == JsArr(<<JsStr("Built the billing service")>>)

PersonalInfos ==
    {JsUndefined,
     [t |-> "object", v |-> [name |-> JsStr("Candidate"), email |-> JsNull,
                             phone |-> JsNull, linkedin |-> JsNull]],
     [t |-> "object", v |-> [name |-> JsStr("Candidate"), email |-> JsStr("a@b.io"),
                             phone |-> JsNull, linkedin |-> JsNull]],
     [t |-> "object", v |-> [name |-> JsStr("Candidate"), email |-> JsStr("a@b.io"),
                             phone |-> JsStr("2125550100"),
                             linkedin |-> JsStr("https://www.linkedin.com/in/ab")]]}

RawTexts ==
    {JsUndefined,
     JsStr("Worked on APIs. Helped and assisted; handled releases, made tools")}

ParsedResumes ==
    {[t |-> "object",
      v |-> [personalInfo |-> pi, summary |-> su, experience |-> ex,
             education |-> ed, projects |-> pr, skills |-> sk, rawText |-> rt]] :
         pi \in PersonalInfos, su \in {JsNull, Lines}, ex \in {JsArr(<<>>), Lines},
         ed \in {JsArr(<<>>), Lines}, pr \in {JsArr(<<>>), Lines},
         sk \in {JsArr(a) : a \in SeqsUpTo(ResumeSkillTokens, MaxResumeSkills)}
                    \cup {JsUndefined},
         rt \in RawTexts}

InitAnalyze ==
    /\ pc = "analyze"
    /\ resumeArg \in ParsedResumes \cup {JsNull, JsUndefined}
    /\ jobArg \in JobDescriptions
    /\ analysis = Idle
    /\ NormIdle /\ CompareIdle /\ ScoreIdle /\ ExtractIdle /\ SimulateIdle /\ AssistantIdle /\ PlatformIdle

AnalyzeResume ==
    /\ pc = "analyze"
    /\ analysis' = analyzeResume(resumeArg, jobArg)
    /\ pc' = "analyzed"
    /\ UNCHANGED <<resumeArg, jobArg>>
    /\ UNCHANGED <<normVars, compareVars, scoreVars, extractVars, simulateVars, assistantVars, platformVars>>

NextAnalyze == AnalyzeResume

SpecAnalyze == InitAnalyze /\ [][NextAnalyze]_vars

(***************************************************************************)
(* Improvement Simulator (ats/simulator.utils.js)                          *)
(*                                                                         *)
(* A score is a double with at most two decimals and is kept in            *)
(* hundredths: 56.67 is JsNum(5667).  For tiers of up to 9 skills the      *)
(* binary64 results of calculateATSScore and of the score differences are  *)
(* the nearest doubles of these exact values.  NaN is a value of its own.  *)
(***************************************************************************)
JsNaN == [t |-> "NaN"]

\* x.length of a value that is not null or undefined.
LengthOf(x) == IF x.t \in {"array", "string"} THEN JsNum(Len(x.v)) ELSE JsUndefined

\* count + 1
PlusOne(count) == IF count.t = "number" THEN JsNum(count.v + 1) ELSE JsNaN

\* total > 0 ? (matched / total) * 100 : 100, as the fraction num/den.
SimTierScore(matched, total) ==
    IF total.t = "number" /\ total.v > 0
    THEN IF matched.t = "number" THEN [nan |-> FALSE, num |-> matched.v * 100, den |-> total.v]
         ELSE [nan |-> TRUE, num |-> 0, den |-> 1]
    ELSE [nan |-> FALSE, num |-> 100, den |-> 1]

\* Math.round(weightedScore * 100) / 100, in hundredths.
calculateATSScore(matchedCore, totalCore, matchedOptional, totalOptional) ==
    LET coreScore     == SimTierScore(matchedCore, totalCore)
        optionalScore == SimTierScore(matchedOptional, totalOptional)
    IN  IF coreScore.nan \/ optionalScore.nan THEN JsNaN
        ELSE JsNum(RoundHalfUp(700 * coreScore.num * optionalScore.den
                                 + 300 * optionalScore.num * coreScore.den,
                               10 * coreScore.den * optionalScore.den))

\* Math.round((newScore - currentScore) * 100) / 100
ScoreGain(newScore, currentScore) ==
    IF newScore.t = "number" /\ currentScore.t = "number"
    THEN JsNum(newScore.v - currentScore.v) ELSE JsNaN

\* Mutant of CompareImprovements: the smaller gain first.
CompareImprovements_Ascending(a, b) ==
    IF a.scoreGain.t # "number" \/ b.scoreGain.t # "number" THEN 0
    ELSE IF b.scoreGain.v # a.scoreGain.v
    THEN (IF b.scoreGain.v > a.scoreGain.v THEN -1 ELSE 1)
    ELSE IF a.type = "core" /\ b.type = "optional" THEN -1
    ELSE IF a.type = "optional" /\ b.type = "core" THEN 1
    ELSE 0

\* The comparator of improvements.sort: its sign, a NaN result counting as 0.
CompareImprovements(a, b) ==
    IF a.scoreGain.t # "number" \/ b.scoreGain.t # "number" THEN 0
    ELSE IF b.scoreGain.v # a.scoreGain.v
    THEN (IF b.scoreGain.v > a.scoreGain.v THEN 1 ELSE -1)
    ELSE IF a.type = "core" /\ b.type = "optional" THEN -1
    ELSE IF a.type = "optional" /\ b.type = "core" THEN 1
    ELSE 0

\* Array.prototype.sort is stable: x goes behind the last element that the
\* comparator does not place after it.
RECURSIVE InsertSorted(_, _)
InsertSorted(sorted, x) ==
    IF Len(sorted) = 0 THEN <<x>>
    ELSE IF CompareImprovements(sorted[Len(sorted)], x) > 0
    THEN Append(InsertSorted(SubSeq(sorted, 1, Len(sorted) - 1), x), sorted[Len(sorted)])
    ELSE Append(sorted, x)

RECURSIVE SortImprovements(_, _, _)
SortImprovements(improvements, i, sorted) ==
    IF i > Len(improvements) THEN sorted
    ELSE SortImprovements(improvements, i + 1, InsertSorted(sorted, improvements[i]))

\* A destructured field with its default: = [] applies to undefined only.
FieldOrEmpty(input, name) ==
    LET x == GetField(input, name)
    IN  IF x.t = "undefined" THEN JsArr(<<>>) ELSE x

simulateATSImprovements(input) ==
    IF input.t \in {"undefined", "null"}
    THEN Thrown("TypeError: Cannot destructure property 'coreSkills' of 'input' as it is "
                \o input.t \o ".")
    ELSE
    LET coreSkills_            == FieldOrEmpty(input, "coreSkills")
        optionalSkills_        == FieldOrEmpty(input, "optionalSkills")
        matchedCoreSkills      == FieldOrEmpty(input, "matchedCoreSkills")
        missingCoreSkills      == FieldOrEmpty(input, "missingCoreSkills")
        matchedOptionalSkills  == FieldOrEmpty(input, "matchedOptionalSkills")
        missingOptionalSkills  == FieldOrEmpty(input, "missingOptionalSkills")
    IN  IF \E x \in {coreSkills_, optionalSkills_, matchedCoreSkills, matchedOptionalSkills} :
               x.t = "null"
        THEN Thrown("TypeError: Cannot read properties of null (reading 'length')")
        ELSE IF ~IsArray(missingCoreSkills) \/ ~IsArray(missingOptionalSkills)
        THEN Thrown("TypeError: forEach is not a function")
        ELSE
        LET totalCoreSkills        == LengthOf(coreSkills_)
            totalOptionalSkills    == LengthOf(optionalSkills_)
            currentMatchedCore     == LengthOf(matchedCoreSkills)
            currentMatchedOptional == LengthOf(matchedOptionalSkills)
            currentScore == calculateATSScore(currentMatchedCore, totalCoreSkills,
                                              currentMatchedOptional, totalOptionalSkills)
            coreNewScore == calculateATSScore(PlusOne(currentMatchedCore), totalCoreSkills,
                                              currentMatchedOptional, totalOptionalSkills)
            optionalNewScore ==
                calculateATSScore(currentMatchedCore, totalCoreSkills,
                                  PlusOne(currentMatchedOptional), totalOptionalSkills)
            coreImprovements ==
                [i \in 1..Len(missingCoreSkills.v) |->
                    [skill |-> missingCoreSkills.v[i], type |-> "core",
                     newScore |-> coreNewScore,
                     scoreGain |-> ScoreGain(coreNewScore, currentScore)]]
            optionalImprovements ==
                [i \in 1..Len(missingOptionalSkills.v) |->
                    [skill |-> missingOptionalSkills.v[i], type |-> "optional",
                     newScore |-> optionalNewScore,
                     scoreGain |-> ScoreGain(optionalNewScore, currentScore)]]
            sorted == SortImprovements(coreImprovements \o optionalImprovements, 1, <<>>)
        IN  Returned([currentScore |-> currentScore,
                      improvements |-> [i \in 1..Len(sorted) |->
                                           [skill |-> sorted[i].skill,
                                            newScore |-> sorted[i].newScore]]])

(***************************************************************************)
(* SpecSimulate: one call of simulateATSImprovements.                      *)
(***************************************************************************)
\* n skills of a tier, numbered from + 1 .. from + n.
TierSkills(tier, from, n) == JsArr([i \in 1..n |-> JsStr(tier \o ToString(from + i))])

\* The input the route builds from a comparison: coreSkills and
\* optionalSkills are matched plus missing of each tier.
ConsistentInputs ==
    {[t |-> "object",
      v |-> [coreSkills            |-> TierSkills("core", 0, mc + xc),
             optionalSkills        |-> TierSkills("optional", 0, mo + xo),
             matchedCoreSkills     |-> TierSkills("core", 0, mc),
             missingCoreSkills     |-> TierSkills("core", mc, xc),
             matchedOptionalSkills |-> TierSkills("optional", 0, mo),
             missingOptionalSkills |-> TierSkills("optional", mo, xo)]] :
         mc \in 0..MaxSimTier, xc \in 0..MaxSimTier,
         mo \in 0..MaxSimTier, xo \in 0..MaxSimTier}

\* Consistent inputs with seven core and three optional skills, where one
\* more skill of either tier gains the same 10 points.
TiedInputs ==
    {[t |-> "object",
      v |-> [coreSkills            |-> TierSkills("core", 0, 7),
             optionalSkills        |-> TierSkills("optional", 0, 3),
             matchedCoreSkills     |-> TierSkills("core", 0, mc),
             missingCoreSkills     |-> TierSkills("core", mc, 7 - mc),
             matchedOptionalSkills |-> TierSkills("optional", 0, mo),
             missingOptionalSkills |-> TierSkills("optional", mo, 3 - mo)]] :
         mc \in 0..7, mo \in 0..3}

SimulatorFields ==
    {"coreSkills", "optionalSkills", "matchedCoreSkills", "missingCoreSkills",
     "matchedOptionalSkills", "missingOptionalSkills"}

MalformedFields == {JsNull, JsUndefined, JsStr("React"), JsNum(3)}

\* A consistent input with one field replaced by a value that is no array.
MalformedInputs ==
    {[t |-> "object", v |-> [base.v EXCEPT ![f] = bad]] :
         base \in ConsistentInputs, f \in SimulatorFields, bad \in MalformedFields}

InitSimulate ==
    /\ pc = "simulate"
    /\ simulatorArg \in ConsistentInputs \cup TiedInputs \cup MalformedInputs
                           \cup {JsNull, JsUndefined, JsNum(7)}
    /\ simulation = Idle
    /\ NormIdle /\ CompareIdle /\ ScoreIdle /\ ExtractIdle /\ AnalyzeIdle /\ AssistantIdle /\ PlatformIdle

SimulateATSImprovements ==
    /\ pc = "simulate"
    /\ simulation' = simulateATSImprovements(simulatorArg)
    /\ pc' = "simulated"
    /\ UNCHANGED simulatorArg
    /\ UNCHANGED <<normVars, compareVars, scoreVars, extractVars, analyzeVars, assistantVars, platformVars>>

NextSimulate == SimulateATSImprovements

SpecSimulate == InitSimulate /\ [][NextSimulate]_vars

(***************************************************************************)
(* SpecStructured: one call of either orchestration entry point,           *)
(* analyzeResume or simulateATSImprovements.                               *)
(***************************************************************************)
InitStructured == InitAnalyze \/ InitSimulate

NextStructured == AnalyzeResume \/ SimulateATSImprovements

SpecStructured == InitStructured /\ [][NextStructured]_vars

(***************************************************************************)
(* SpecInvalidInputs: one call of one of the four core engines with        *)
(* arguments of the wrong type.                                            *)
(***************************************************************************)
NonStrings == {JsNull, JsUndefined, JsNum(7), JsNum(0), JsArr(<<JsStr("React")>>),
               [t |-> "object", v |-> [text |-> JsStr("Required: React")]]}

NonArrayFields == {JsStr("JavaScript"), JsNull, JsUndefined}

NonArrayComparisons ==
    {[t |-> "object",
      v |-> [matchedCoreSkills |-> a, missingCoreSkills |-> b,
             matchedOptionalSkills |-> c, missingOptionalSkills |-> d]] :
         a \in NonArrayFields, b \in NonArrayFields,
         c \in NonArrayFields, d \in NonArrayFields}

InitInvalidInputs ==
    \/ /\ pc = "normalize"
       /\ skillsArray \in NonArrays
       /\ normalized = Idle /\ renormalized = Idle
       /\ CompareIdle /\ ScoreIdle /\ ExtractIdle /\ AnalyzeIdle /\ SimulateIdle /\ AssistantIdle /\ PlatformIdle
    \/ /\ pc = "extract"
       /\ jobText \in NonStrings
       /\ extraction = Idle
       /\ NormIdle /\ CompareIdle /\ ScoreIdle /\ AnalyzeIdle /\ SimulateIdle /\ AssistantIdle /\ PlatformIdle
    \/ /\ pc = "compare"
       /\ resumeSkills \in NonArraySkills
       /\ coreSkills \in NonArraySkills
       /\ optionalSkills \in NonArraySkills
       /\ comparison = Idle
       /\ NormIdle /\ ScoreIdle /\ ExtractIdle /\ AnalyzeIdle /\ SimulateIdle /\ AssistantIdle /\ PlatformIdle
    \/ /\ pc = "score"
       /\ weightedComparison \in NonObjects \cup NonArrayComparisons
       /\ scoreResult = Idle
       /\ NormIdle /\ CompareIdle /\ ExtractIdle /\ AnalyzeIdle /\ SimulateIdle /\ AssistantIdle /\ PlatformIdle

NextInvalidInputs ==
    \/ NormalizeSkills
    \/ NormalizeAgain
    \/ ExtractWeightedJDSkills
    \/ CompareWeightedSkills
    \/ CalculateWeightedATSScore

SpecInvalidInputs == InitInvalidInputs /\ [][NextInvalidInputs]_vars

(***************************************************************************)
(* AI Assistant: pattern tables (ai/intents/patterns.js)                   *)
(*                                                                         *)
(* A regular expression literal is written as the sequence of its          *)
(* concatenated groups, each group the set of its alternatives; an         *)
(* optional group has the empty alternative.  Inside an alternative        *)
(* "\\s+" is the token \s+ and every other character stands for itself.    *)
(* The patterns are lower case and are tested on lower-cased text, so the  *)
(* i flag has no effect.                                                   *)
(*                                                                         *)
(* A confidence is a double n/100 that is either the double nearest to     *)
(* the decimal (ulps 0) or the one just below it (ulps -1).                *)
(***************************************************************************)
Decimal(h) == [hundredths |-> h, ulps |-> 0]

\* The alternatives of a regular expression from group i on, each as the
\* text of one concatenation.
RECURSIVE Expand(_, _)
Expand(groups, i) ==
    IF i > Len(groups) THEN {""}
    ELSE {a \o rest : a \in groups[i], rest \in Expand(groups, i + 1)}

\* The literal pieces of one alternative, cut at its \s+ tokens.
RECURSIVE Chunks(_)
Chunks(alternative) ==
    LET tokens == {i \in 1..(Len(alternative) - 2) : SubSeq(alternative, i, i + 2) = "\\s+"}
    IN  IF tokens = {} THEN <<alternative>>
        ELSE LET i == CHOOSE m \in tokens : \A n \in tokens : m <= n
             IN  <<SubSeq(alternative, 1, i - 1)>>
                     \o Chunks(SubSeq(alternative, i + 3, Len(alternative)))

\* /.../i, and /^...$/i when anchored.
Regex(groups, anchored) ==
    [source       |-> groups,
     anchored     |-> anchored,
     alternatives |-> {Chunks(a) : a \in Expand(groups, 1)}]

DOMAIN_KEYWORDS ==
    <<"resume", "cv", "ats", "score", "skills", "experience", "job",
      "description", "keywords", "match", "format", "bullet", "section",
      "work history", "education", "certification", "qualification",
      "hiring", "recruiter", "applicant", "tracking", "optimize",
      "improve", "rewrite", "rephrase", "missing", "weak", "strong">>

INTENT_PATTERNS ==
    <<[intent   |-> "SCORE_EXPLANATION",
       keywords |-> <<"score", "why", "low", "high", "explain", "breakdown",
                      "rating", "grade", "result", "percentage">>,
       phrases  |->
           <<Regex(<<{"why\\s+"}, {"is", "was"}, {"\\s+"}, {"my", "the"}, {"\\s+score"}>>, FALSE),
             Regex(<<{"explain\\s+"}, {"my", "the"}, {"\\s+score"}>>, FALSE),
             Regex(<<{"score\\s+"}, {"is", "was"}, {"\\s+"}, {"low", "high", "bad", "good"}>>, FALSE),
             Regex(<<{"how\\s+did\\s+i\\s+"}, {"score", "do", "perform"}>>, FALSE),
             Regex(<<{"what\\s+does\\s+"}, {"my", "the"}, {"\\s+score\\s+mean"}>>, FALSE),
             Regex(<<{"breakdown\\s+"}, {"of", "for"}, {"\\s+"}, {"my", "the"}, {"\\s+score"}>>, FALSE)>>,
       baseConfidence |-> Decimal(90),
       priority |-> 1],
      [intent   |-> "SKILLS_GAP",
       keywords |-> <<"missing", "skills", "gap", "lack", "need", "required",
                      "keywords", "absent", "not found">>,
       phrases  |->
           <<Regex(<<{"what\\s+"}, {"skills", "keywords"}, {"\\s+"}, {"am\\s+i", "are"}, {"\\s+missing"}>>, FALSE),
             Regex(<<{"missing\\s+"}, {"skills", "keywords"}>>, FALSE),
             Regex(<<{"skill"}, {"", "s"}, {"\\s+gap"}>>, FALSE),
             Regex(<<{"what\\s+"}, {"should", "do"}, {"\\s+i\\s+"}, {"add", "include"}>>, FALSE),
             Regex(<<{"which\\s+"}, {"skills", "keywords"}, {"\\s+"}, {"are", "were"}, {"\\s+not\\s+found"}>>, FALSE)>>,
       baseConfidence |-> Decimal(90),
       priority |-> 2],
      [intent   |-> "JD_MATCH",
       keywords |-> <<"match", "job", "description", "fit", "aligned", "relevant",
                      "compatible", "suitable">>,
       phrases  |->
           <<Regex(<<{"how\\s+"}, {"", "well\\s+"}, {"do", "does"}, {"\\s+"}, {"i", "it", "my resume"}, {"\\s+match"}>>, FALSE),
             Regex(<<{"match\\s+"}, {"percentage", "rate", "score"}>>, FALSE),
             Regex(<<{"fit\\s+for\\s+"}, {"this", "the"}, {"\\s+job"}>>, FALSE),
             Regex(<<{"aligned\\s+with\\s+"}, {"", "the\\s+"}, {"job"}>>, FALSE),
             Regex(<<{"compare\\s+"}, {"to", "with"}, {"\\s+"}, {"", "the\\s+"}, {"job"}>>, FALSE)>>,
       baseConfidence |-> Decimal(90),
       priority |-> 3],
      [intent   |-> "EXPERIENCE_IMPROVE",
       keywords |-> <<"experience", "work", "history", "weak", "improve", "better",
                      "strengthen", "enhance", "bullets">>,
       phrases  |->
           <<Regex(<<{"improve\\s+"}, {"", "my\\s+"}, {"experience"}>>, FALSE),
             Regex(<<{"weak\\s+"}, {"experience", "work\\s+history"}>>, FALSE),
             Regex(<<{"how\\s+"}, {"can", "do"}, {"\\s+i\\s+"}, {"improve", "enhance"}, {"\\s+"}, {"", "my\\s+"}, {"experience"}>>, FALSE),
             Regex(<<{"experience\\s+section\\s+"}, {"is", "looks"}, {"\\s+"}, {"weak", "bad"}>>, FALSE),
             Regex(<<{"make\\s+"}, {"", "my\\s+"}, {"experience\\s+"}, {"better", "stronger"}>>, FALSE)>>,
       baseConfidence |-> Decimal(85),
       priority |-> 4],
      [intent   |-> "KEYWORD_SUGGESTION",
       keywords |-> <<"suggest", "recommend", "add", "include", "keywords", "terms",
                      "phrases", "words">>,
       phrases  |->
           <<Regex(<<{"suggest\\s+"}, {"keywords", "skills", "terms"}>>, FALSE),
             Regex(<<{"what\\s+"}, {"keywords", "skills"}, {"\\s+"}, {"should", "can"}, {"\\s+i\\s+add"}>>, FALSE),
             Regex(<<{"recommend\\s+"}, {"", "any\\s+"}, {"keywords", "skills"}>>, FALSE),
             Regex(<<{"keyword"}, {"", "s"}, {"\\s+to\\s+"}, {"add", "include"}>>, FALSE)>>,
       baseConfidence |-> Decimal(85),
       priority |-> 5],
      [intent   |-> "FORMATTING_FEEDBACK",
       keywords |-> <<"format", "layout", "structure", "design", "template",
                      "sections", "organize", "length", "pages">>,
       phrases  |->
           <<Regex(<<{"format"}, {"", "ting"}, {"\\s+"}, {"issue", "issues", "problem", "problems", "feedback"}>>, FALSE),
             Regex(<<{"is", "was"}, {"\\s+"}, {"the", "my"}, {"\\s+format"}>>, FALSE),
             Regex(<<{"how\\s+"}, {"is", "should"}, {"\\s+"}, {"the", "my"}, {"\\s+"}, {"format", "layout", "structure"}>>, FALSE),
             Regex(<<{"structure\\s+"}, {"of", "for"}, {"\\s+"}, {"my", "the"}, {"\\s+resume"}>>, FALSE),
             Regex(<<{"organize\\s+"}, {"my", "the"}, {"\\s+resume"}>>, FALSE)>>,
       baseConfidence |-> Decimal(85),
       priority |-> 6],
      [intent   |-> "RESUME_REWRITE",
       keywords |-> <<"rewrite", "rephrase", "reword", "improve", "bullet", "sentence",
                      "stronger", "action verbs">>,
       phrases  |->
           <<Regex(<<{"rewrite\\s+"}, {"this", "my", "the"}, {"\\s+"}, {"bullet", "sentence", "point"}>>, FALSE),
             Regex(<<{"rephrase\\s+"}, {"this", "my"}>>, FALSE),
             Regex(<<{"make\\s+"}, {"this", "it"}, {"\\s+"}, {"", "sound\\s+"}, {"better", "stronger", "professional"}>>, FALSE),
             Regex(<<{"improve\\s+"}, {"this", "my"}, {"\\s+"}, {"bullet", "sentence"}>>, FALSE),
             Regex(<<{"use\\s+"}, {"stronger", "better", "action"}, {"\\s+verbs"}>>, FALSE)>>,
       baseConfidence |-> Decimal(80),
       priority |-> 7],
      [intent   |-> "SECTION_ANALYSIS",
       keywords |-> <<"section", "education", "summary", "objective", "projects",
                      "certifications", "analyze">>,
       phrases  |->
           <<Regex(<<{"analyze\\s+"}, {"", "my\\s+"}, {"education", "summary", "projects"}>>, FALSE),
             Regex(<<{"education", "summary", "project", "projects"}, {"\\s+section"}>>, FALSE),
             Regex(<<{"how\\s+"}, {"is", "was"}, {"\\s+"}, {"", "my\\s+"}, {"education", "summary"}>>, FALSE),
             Regex(<<{"feedback\\s+"}, {"on", "for"}, {"\\s+"}, {"", "my\\s+"}, {"education", "summary"}>>, FALSE)>>,
       baseConfidence |-> Decimal(80),
       priority |-> 8]>>

OFF_TOPIC_INDICATORS ==
    <<Regex(<<{"weather"}>>, FALSE), Regex(<<{"news"}>>, FALSE), Regex(<<{"sports"}>>, FALSE),
      Regex(<<{"politics"}>>, FALSE), Regex(<<{"recipe"}>>, FALSE), Regex(<<{"cook"}>>, FALSE),
      Regex(<<{"movie"}>>, FALSE), Regex(<<{"music"}>>, FALSE), Regex(<<{"game"}>>, FALSE),
      Regex(<<{"play"}>>, FALSE), Regex(<<{"travel"}>>, FALSE), Regex(<<{"hotel"}>>, FALSE),
      Regex(<<{"restaurant"}>>, FALSE), Regex(<<{"shop"}>>, FALSE), Regex(<<{"buy"}>>, FALSE),
      Regex(<<{"price"}>>, FALSE), Regex(<<{"stock"}>>, FALSE), Regex(<<{"crypto"}>>, FALSE),
      Regex(<<{"health"}>>, FALSE), Regex(<<{"medical"}>>, FALSE), Regex(<<{"doctor"}>>, FALSE),
      Regex(<<{"legal"}>>, FALSE), Regex(<<{"lawyer"}>>, FALSE), Regex(<<{"math"}>>, FALSE),
      Regex(<<{"calculate"}>>, FALSE), Regex(<<{"translate"}>>, FALSE), Regex(<<{"language"}>>, FALSE),
      Regex(<<{"who\\s+is"}>>, FALSE), Regex(<<{"what\\s+year"}>>, FALSE),
      Regex(<<{"when\\s+was"}>>, FALSE), Regex(<<{"history\\s+of"}>>, FALSE)>>

AMBIGUOUS_PATTERNS ==
    <<Regex(<<{"help"}>>, TRUE), Regex(<<{"improve"}>>, TRUE), Regex(<<{"better"}>>, TRUE),
      Regex(<<{"fix"}>>, TRUE), Regex(<<{"what", "how"}, {"\\s+now"}, {"", "?"}>>, TRUE)>>

(***************************************************************************)
(* AI Assistant: domain check and intent detection (ai/intents/index.js)   *)
(***************************************************************************)
\* Mutant of CONFIDENCE_THRESHOLD: concrete intents from 0.5 on.
CONFIDENCE_THRESHOLD_Half == Decimal(50)

CONFIDENCE_THRESHOLD == Decimal(60)
DOMAIN_THRESHOLD == [num |-> 3, den |-> 10]

\* The first position from q on that holds no white space.
RECURSIVE SkipSpaces(_, _)
SkipSpaces(text, q) ==
    IF q <= Len(text) /\ IsSpace(CharAt(text, q)) THEN SkipSpaces(text, q + 1) ELSE q

\* The position after a match of the chunks from the i-th on that starts at
\* p, 0 when there is none.  \s+ takes the whole run of white space, as the
\* chunk after it starts with another character.
RECURSIVE MatchChunks(_, _, _, _)
MatchChunks(chunks, i, text, p) ==
    Bind(p + Len(chunks[i]), LAMBDA q :
        IF q > Len(text) + 1 \/ SubSeq(text, p, q - 1) # chunks[i] THEN 0
        ELSE IF i = Len(chunks) THEN q
        ELSE Bind(SkipSpaces(text, q), LAMBDA r :
                 IF r = q THEN 0 ELSE MatchChunks(chunks, i + 1, text, r)))

\* RegExp.prototype.test
RegexTest(regex, text) ==
    \E chunks \in regex.alternatives :
        \E p \in IF regex.anchored THEN {1} ELSE 1..Len(text) :
            Bind(MatchChunks(chunks, 1, text, p), LAMBDA end :
                end # 0 /\ (regex.anchored => end = Len(text) + 1))

\* normalizedQuery.split(/\s+/).filter(w => w.length > 2).length, for a
\* trimmed text: the words start where a character follows white space.
LongWordCount(text) ==
    Cardinality({i \in 1..Len(text) :
        /\ ~IsSpace(CharAt(text, i))
        /\ i = 1 \/ IsSpace(CharAt(text, i - 1))
        /\ i + 2 <= Len(text)
        /\ ~IsSpace(CharAt(text, i + 1))
        /\ ~IsSpace(CharAt(text, i + 2))})

\* a >= b on fractions
AtLeastFraction(a, b) == a.num * b.den >= b.num * a.den

\* Mutant of validateDomain: a domain keyword admits the query before the
\* off-topic patterns are looked at.
validateDomain_KeywordsFirst(query) ==
    Bind(Trim(ToLowerCase(query)), LAMBDA normalizedQuery :
        IF \E i \in 1..Len(DOMAIN_KEYWORDS) :
               Includes(normalizedQuery, ToLowerCase(DOMAIN_KEYWORDS[i]))
        THEN [isValid |-> TRUE, confidence |-> [num |-> 1, den |-> 1], reason |-> "DOMAIN_MATCH"]
        ELSE IF \E i \in 1..Len(OFF_TOPIC_INDICATORS) :
                    RegexTest(OFF_TOPIC_INDICATORS[i], normalizedQuery)
        THEN [isValid |-> FALSE, confidence |-> [num |-> 0, den |-> 1], reason |-> "OFF_TOPIC"]
        ELSE [isValid |-> FALSE, confidence |-> [num |-> 0, den |-> 1], reason |-> "LOW_RELEVANCE"])

\* The confidence is kept as the exact fraction of the division; for
\* queries of fewer than 100 words no double rounding moves it across
\* DOMAIN_THRESHOLD.
validateDomain(query) ==
    Bind(Trim(ToLowerCase(query)), LAMBDA normalizedQuery :
        IF \E i \in 1..Len(OFF_TOPIC_INDICATORS) :
               RegexTest(OFF_TOPIC_INDICATORS[i], normalizedQuery)
        THEN [isValid |-> FALSE, confidence |-> [num |-> 0, den |-> 1], reason |-> "OFF_TOPIC"]
        ELSE Bind(Cardinality({i \in 1..Len(DOMAIN_KEYWORDS) :
                      Includes(normalizedQuery, ToLowerCase(DOMAIN_KEYWORDS[i]))}),
                  LAMBDA domainKeywordCount :
             Bind(LongWordCount(normalizedQuery), LAMBDA words :
             Bind(IF words = 0 \/ domainKeywordCount = 0 THEN [num |-> 0, den |-> 1]
                  ELSE IF 3 * words <= 10 \/ 10 * domainKeywordCount >= 3 * words
                       THEN [num |-> 1, den |-> 1]
                  ELSE [num |-> 10 * domainKeywordCount, den |-> 3 * words],
                  LAMBDA domainConfidence :
                 [isValid    |-> \/ AtLeastFraction(domainConfidence, DOMAIN_THRESHOLD)
                                 \/ domainKeywordCount >= 1,
                  confidence |-> domainConfidence,
                  reason     |-> IF AtLeastFraction(domainConfidence, DOMAIN_THRESHOLD)
                                 THEN "DOMAIN_MATCH" ELSE "LOW_RELEVANCE"]))))

\* The sums 0.15 + ... + 0.35 + ... of at most 0.9 whose double is the one
\* below the nearest double of the decimal sum, as (keywords, phrases).
SumTiesBelow == {<<3, 0>>, <<2, 1>>, <<3, 1>>}

\* score after k keyword matches and p phrase matches
ScoreSum(k, p) ==
    [hundredths |-> 15 * k + 35 * p,
     ulps       |-> IF <<k, p>> \in SumTiesBelow THEN -1 ELSE 0]

\* a < b on confidences
ConfidenceBelow(a, b) ==
    \/ a.hundredths < b.hundredths
    \/ a.hundredths = b.hundredths /\ a.ulps < b.ulps

\* The body of the scoring loop for one intent.
ScoreIntent(pattern, normalizedQuery) ==
    Bind(SelectSeq(pattern.keywords, LAMBDA keyword :
             Includes(normalizedQuery, ToLowerCase(keyword))), LAMBDA keywords :
    Bind(SelectSeq(pattern.phrases, LAMBDA regex :
             RegexTest(regex, normalizedQuery)), LAMBDA phrases :
    Bind(ScoreSum(Len(keywords), Len(phrases)), LAMBDA score :
        [intent     |-> pattern.intent,
         confidence |-> IF ConfidenceBelow(score, pattern.baseConfidence)
                        THEN score ELSE pattern.baseConfidence,
         priority   |-> pattern.priority,
         matches    |->
             [i \in 1..Len(keywords) |-> [type |-> "keyword", value |-> keywords[i]]]
                 \o [i \in 1..Len(phrases) |->
                         [type |-> "phrase", pattern |-> phrases[i].source]]])))

\* scores.sort: by confidence descending, then by priority ascending.  The
\* priorities differ, so every score has a rank of its own.
SortScores(scores) ==
    LET Before(a, b) ==
            \/ ConfidenceBelow(b.confidence, a.confidence)
            \/ a.confidence = b.confidence /\ a.priority < b.priority
        Rank(i) == 1 + Cardinality({j \in 1..Len(scores) : Before(scores[j], scores[i])})
    IN  [r \in 1..Len(scores) |-> scores[CHOOSE i \in 1..Len(scores) : Rank(i) = r]]

generateClarificationQuestion(partialIntent) ==
    CASE partialIntent = "SCORE_EXPLANATION" ->
             "Are you asking about your ATS score? Would you like me to explain why your score is what it is?"
      [] partialIntent = "SKILLS_GAP" ->
             "Are you interested in knowing which skills are missing from your resume?"
      [] partialIntent = "JD_MATCH" ->
             "Would you like to know how well your resume matches the job description?"
      [] partialIntent = "EXPERIENCE_IMPROVE" ->
             "Are you looking to improve your work experience section?"
      [] partialIntent = "KEYWORD_SUGGESTION" ->
             "Would you like suggestions for keywords to add to your resume?"
      [] partialIntent = "FORMATTING_FEEDBACK" ->
             "Are you asking about your resume's format and structure?"
      [] partialIntent = "RESUME_REWRITE" ->
             "Would you like me to help rewrite or improve a specific part of your resume?"
      [] partialIntent = "SECTION_ANALYSIS" ->
             "Which section of your resume would you like me to analyze?"
      [] OTHER ->
             "Could you please clarify what aspect of your resume you'd like help with?"

detectIntent(query) ==
    Bind(Trim(ToLowerCase(query)), LAMBDA normalizedQuery :
        IF \E i \in 1..Len(AMBIGUOUS_PATTERNS) :
               RegexTest(AMBIGUOUS_PATTERNS[i], normalizedQuery)
        THEN [intent |-> "CLARIFICATION_NEEDED",
              confidence |-> Decimal(0),
              needsClarification |-> TRUE,
              clarificationQuestion |->
                  "Could you be more specific? For example:\n- \"Why is my score low?\"\n- \"What skills am I missing?\"\n- \"How can I improve my experience section?\""]
        ELSE Bind([i \in 1..Len(INTENT_PATTERNS) |->
                      ScoreIntent(INTENT_PATTERNS[i], normalizedQuery)], LAMBDA scored :
             Bind(SortScores(scored), LAMBDA scores :
                 IF ConfidenceBelow(scores[1].confidence, CONFIDENCE_THRESHOLD)
                 THEN Bind(SelectSeq(scores, LAMBDA s :
                               ConfidenceBelow(Decimal(0), s.confidence)),
                           LAMBDA partialMatches :
                          IF Len(partialMatches) > 0
                          THEN [intent |-> "CLARIFICATION_NEEDED",
                                confidence |-> scores[1].confidence,
                                needsClarification |-> TRUE,
                                possibleIntents |->
                                    [i \in 1..Len(Slice(partialMatches, 2)) |->
                                         partialMatches[i].intent],
                                clarificationQuestion |->
                                    generateClarificationQuestion(partialMatches[1].intent)]
                          ELSE [intent |-> "UNKNOWN",
                                confidence |-> Decimal(0),
                                needsClarification |-> TRUE,
                                clarificationQuestion |->
                                    "I'm not sure what you're asking about. Could you please rephrase your question about your resume or ATS score?"])
                 ELSE [intent |-> scores[1].intent,
                       confidence |-> scores[1].confidence,
                       needsClarification |-> FALSE,
                       matches |-> scores[1].matches])))

\* {...a, ...b}: the properties of a, overridden and extended by those of b.
Spread(a, b) ==
    [k \in DOMAIN a \cup DOMAIN b |-> IF k \in DOMAIN b THEN b[k] ELSE a[k]]

analyzeQuery(query) ==
    IF ~Truthy(query) \/ ~IsString(query) \/ Len(Trim(query.v)) = 0
    THEN [isValid |-> FALSE, intent |-> "INVALID_INPUT", confidence |-> Decimal(0),
          message |-> "Please enter a valid question."]
    ELSE Bind(validateDomain(query.v), LAMBDA domainResult_ :
             IF ~domainResult_.isValid
             THEN [isValid |-> FALSE, intent |-> "OUT_OF_SCOPE", confidence |-> Decimal(0),
                   message |-> "I can only assist with resume analysis and ATS optimization. Please ask about your resume score, missing skills, or how to improve your ATS match."]
             ELSE Spread(Spread([isValid |-> TRUE], detectIntent(query.v)),
                         [domainConfidence |-> domainResult_.confidence]))

(***************************************************************************)
(* AI Assistant: context builder (ai/context/contextBuilder.js)            *)
(*                                                                         *)
(* A context is a record: type is a string, the other fields are           *)
(* JavaScript values.  The builders that call a method of a field return   *)
(* an outcome, as the call throws for a field of another type.  Scores     *)
(* that are compared are numbers (or null, undefined).                     *)
(***************************************************************************)
JsObj(fields) == [t |-> "object", v |-> fields]
JsBool(b) == [t |-> "boolean", v |-> b]

\* x || d
Or(x, d) == IF Truthy(x) THEN x ELSE d

\* x?.length || 0
OptLength(x) == IF x.t \in {"array", "string"} THEN Len(x.v) ELSE 0

\* x.slice(0, n) of an array or a string
SliceOf(x, n) == [x EXCEPT !.v = Slice(x.v, n)]

\* x < n and x >= n for a number n
Less(x, n) == IF x.t = "number" THEN x.v < n ELSE x.t = "null" /\ 0 < n
NotLess(x, n) == IF x.t = "number" THEN x.v >= n ELSE x.t = "null" /\ 0 >= n

calculateMatchRate(matched, missing) ==
    IF matched + missing = 0 THEN 0 ELSE RoundHalfUp(100 * matched, matched + missing)

\* scores.sort((a, b) => a[1] - b[1]) is stable: scores[0] is the first
\* entry with the least score, scores[length - 1] the last with the greatest.
buildScoreContext(ats) ==
    LET ScoreOf(name) == GetField(ats, name \o "Score")
        entries == SelectSeq(<<"skills", "experience", "education", "format">>,
                             LAMBDA name : ScoreOf(name).t # "undefined")
        Section(i) == JsObj([name |-> JsStr(entries[i]), score |-> ScoreOf(entries[i])])
        first == CHOOSE i \in 1..Len(entries) :
                     /\ \A j \in 1..Len(entries) : ScoreOf(entries[j]).v >= ScoreOf(entries[i]).v
                     /\ \A j \in 1..(i - 1) : ScoreOf(entries[j]).v > ScoreOf(entries[i]).v
        last  == CHOOSE i \in 1..Len(entries) :
                     /\ \A j \in 1..Len(entries) : ScoreOf(entries[j]).v <= ScoreOf(entries[i]).v
                     /\ \A j \in (i + 1)..Len(entries) : ScoreOf(entries[j]).v < ScoreOf(entries[i]).v
        context_ ==
            [type           |-> "SCORE_EXPLANATION",
             overallScore   |-> Or(GetField(ats, "atsScore"), JsNum(0)),
             sectionScores  |-> JsObj([name \in {entries[i] : i \in 1..Len(entries)} |->
                                          ScoreOf(name)]),
             lowestSection  |-> IF Len(entries) > 0 THEN Section(first) ELSE JsNull,
             highestSection |-> IF Len(entries) > 0 THEN Section(last) ELSE JsNull]
    IN  Returned(IF Truthy(GetField(ats, "explanation"))
                 THEN Spread(context_, [explanation |-> GetField(ats, "explanation")])
                 ELSE context_)

buildSkillsGapContext(ats) ==
    LET matchedCore == OptLength(GetField(ats, "matchedCoreSkills"))
        missingCore == OptLength(GetField(ats, "missingCoreSkills"))
    IN  Returned(
            [type                  |-> "SKILLS_GAP",
             matchedCoreSkills     |-> Or(GetField(ats, "matchedCoreSkills"), JsArr(<<>>)),
             missingCoreSkills     |-> Or(GetField(ats, "missingCoreSkills"), JsArr(<<>>)),
             matchedOptionalSkills |-> Or(GetField(ats, "matchedOptionalSkills"), JsArr(<<>>)),
             missingOptionalSkills |-> Or(GetField(ats, "missingOptionalSkills"), JsArr(<<>>)),
             totalCoreSkills       |-> JsNum(matchedCore + missingCore),
             totalOptionalSkills   |-> JsNum(OptLength(GetField(ats, "matchedOptionalSkills"))
                                             + OptLength(GetField(ats, "missingOptionalSkills"))),
             coreMatchRate         |-> JsNum(calculateMatchRate(matchedCore, missingCore))])

buildJDMatchContext(ats) ==
    Returned(
        [type          |-> "JD_MATCH",
         overallMatch  |-> Or(GetField(ats, "atsScore"), JsNum(0)),
         matchedSkills |-> Or(GetField(ats, "matchedCoreSkills"), JsArr(<<>>)),
         missingSkills |-> Or(GetField(ats, "missingCoreSkills"), JsArr(<<>>)),
         matchCount    |-> JsNum(OptLength(GetField(ats, "matchedCoreSkills"))),
         totalRequired |-> JsNum(OptLength(GetField(ats, "matchedCoreSkills"))
                                 + OptLength(GetField(ats, "missingCoreSkills"))),
         feedback      |-> Or(GetField(ats, "feedback"), JsNull)])

\* atsResult.recommendations?.filter(r => r.toLowerCase().includes(w1) || ...) || []
FilterRecommendations(ats, words) ==
    LET recommendations == GetField(ats, "recommendations")
    IN  IF recommendations.t \in {"undefined", "null"} THEN Returned(JsArr(<<>>))
        ELSE IF ~IsArray(recommendations)
        THEN Thrown("TypeError: atsResult.recommendations?.filter is not a function")
        ELSE IF \E i \in 1..Len(recommendations.v) : ~IsString(recommendations.v[i])
        THEN Thrown("TypeError: r.toLowerCase is not a function")
        ELSE Returned(JsArr(SelectSeq(recommendations.v, LAMBDA r :
                 \E w \in words : Includes(ToLowerCase(r.v), w))))

buildExperienceContext(ats) ==
    Bind(FilterRecommendations(ats, {"experience", "action", "verb"}), LAMBDA filtered :
        IF filtered.threw THEN filtered
        ELSE Returned(
                 [type            |-> "EXPERIENCE_IMPROVE",
                  experienceScore |-> Or(GetField(ats, "experienceScore"), JsNull),
                  weakVerbs       |-> Or(GetField(ats, "weakVerbs"), JsArr(<<>>)),
                  recommendations |-> filtered.value]))

\* The spread of a value that is neither an array nor a string throws, and
\* so does .map of a string.
buildKeywordContext(ats) ==
    LET core     == Or(GetField(ats, "missingCoreSkills"), JsArr(<<>>))
        optional == Or(GetField(ats, "missingOptionalSkills"), JsArr(<<>>))
        Keywords(list, priority) ==
            [i \in 1..Len(list.v) |->
                 JsObj([keyword |-> list.v[i], priority |-> JsStr(priority)])]
    IN  IF core.t \notin {"array", "string"} \/ optional.t \notin {"array", "string"}
        THEN Thrown("TypeError: (atsResult.missingCoreSkills || []) is not iterable")
        ELSE IF ~IsArray(core) \/ ~IsArray(optional)
        THEN Thrown("TypeError: (atsResult.missingCoreSkills || []).map is not a function")
        ELSE Returned(
                 [type              |-> "KEYWORD_SUGGESTION",
                  suggestedKeywords |-> JsArr(Slice(Keywords(core, "high")
                                                        \o Keywords(optional, "medium"), 10)),
                  totalMissing      |-> JsNum(Len(core.v) + Len(optional.v)),
                  alreadyPresent    |-> Or(GetField(ats, "matchedCoreSkills"), JsArr(<<>>))])

buildFormattingContext(ats) ==
    Bind(FilterRecommendations(ats, {"format", "structure", "section", "length"}),
         LAMBDA filtered :
        IF filtered.threw THEN filtered
        ELSE Returned(
                 [type            |-> "FORMATTING_FEEDBACK",
                  formatScore     |-> Or(GetField(ats, "formatScore"), JsNull),
                  formatIssues    |-> Or(GetField(ats, "formatIssues"), JsArr(<<>>)),
                  recommendations |-> filtered.value]))

buildRewriteContext(ats, userQuery) ==
    Returned(
        [type          |-> "RESUME_REWRITE",
         weakVerbs     |-> Or(GetField(ats, "weakVerbs"), JsArr(<<>>)),
         needsLLM      |-> JsBool(TRUE),
         originalQuery |-> JsStr(userQuery)])

buildGeneralContext(ats) ==
    Returned(
        [type               |-> "GENERAL",
         overallScore       |-> Or(GetField(ats, "atsScore"), JsNum(0)),
         matchedSkillsCount |-> JsNum(OptLength(GetField(ats, "matchedCoreSkills"))),
         missingSkillsCount |-> JsNum(OptLength(GetField(ats, "missingCoreSkills"))),
         hasFeedback        |-> JsBool(Truthy(GetField(ats, "feedback"))),
         hasRecommendations |-> JsBool(OptLength(GetField(ats, "recommendations")) > 0)])

buildContext(ats, intent, query) ==
    IF ~Truthy(ats) \/ ats.t \notin {"object", "array"}
    THEN Returned([type  |-> "ERROR",
                   error |-> "No analysis data available. Please run an ATS scan first."])
    ELSE CASE intent = "SCORE_EXPLANATION"   -> buildScoreContext(ats)
           [] intent = "SKILLS_GAP"          -> buildSkillsGapContext(ats)
           [] intent = "JD_MATCH"            -> buildJDMatchContext(ats)
           [] intent = "EXPERIENCE_IMPROVE"  -> buildExperienceContext(ats)
           [] intent = "KEYWORD_SUGGESTION"  -> buildKeywordContext(ats)
           [] intent = "FORMATTING_FEEDBACK" -> buildFormattingContext(ats)
           [] intent = "RESUME_REWRITE"      -> buildRewriteContext(ats, query)
           [] OTHER                          -> buildGeneralContext(ats)

(***************************************************************************)
(* AI Assistant: decision engine (ai/engine/decisionEngine.js)             *)
(***************************************************************************)
getScoreRecommendation(section, score) ==
    CASE section = "skills" ->
             IF Less(score, 50) THEN "Add more relevant skills from the job description"
             ELSE "Continue adding industry-specific keywords"
      [] section = "experience" ->
             IF Less(score, 50) THEN "Use stronger action verbs and quantify achievements"
             ELSE "Add more measurable outcomes to your bullet points"
      [] section = "education" ->
             IF Less(score, 50) THEN "Include relevant coursework or certifications"
             ELSE "Add any professional certifications or training"
      [] section = "format" ->
             IF Less(score, 50) THEN "Simplify your resume format for better ATS parsing"
             ELSE "Ensure consistent formatting throughout"
      [] OTHER -> "Focus on improving this section with relevant content"

generateScoreActionItems(ctx) ==
    Slice((IF Less(ctx.overallScore, 60)
           THEN <<"Focus on adding missing core skills">> ELSE <<>>)
          \o (IF Truthy(ctx.lowestSection) /\ Less(ctx.lowestSection.v.score, 50)
              THEN <<"Improve your " \o ctx.lowestSection.v.name.v \o " section">> ELSE <<>>)
          \o (IF DOMAIN ctx.sectionScores.v = {}
              THEN <<"Run a complete ATS analysis for detailed feedback">> ELSE <<>>),
          3)

decideScoreExplanation(ctx) ==
    Returned(
        [category |-> IF NotLess(ctx.overallScore, 80) THEN "EXCELLENT"
                      ELSE IF NotLess(ctx.overallScore, 60) THEN "GOOD"
                      ELSE IF NotLess(ctx.overallScore, 40) THEN "MODERATE"
                      ELSE "LOW",
         primaryIssue |->
             IF Truthy(ctx.lowestSection)
             THEN JsObj([section        |-> ctx.lowestSection.v.name,
                         score          |-> ctx.lowestSection.v.score,
                         impact         |-> JsStr("high"),
                         recommendation |->
                             JsStr(getScoreRecommendation(ctx.lowestSection.v.name.v,
                                                          ctx.lowestSection.v.score))])
             ELSE JsNull,
         sectionBreakdown |-> ctx.sectionScores,
         actionItems |-> generateScoreActionItems(ctx)])

\* Mutant of decideSkillsGap: the urgency is HIGH from 3 missing core
\* skills on.
decideSkillsGap_FromThree(ctx) ==
    LET core     == ctx.missingCoreSkills
        optional == ctx.missingOptionalSkills
    IN  IF ~IsArray(core)
        THEN Thrown("TypeError: missingCoreSkills.slice(...).forEach is not a function")
        ELSE IF ~IsArray(optional)
        THEN Thrown("TypeError: missingOptionalSkills.slice(...).forEach is not a function")
        ELSE Returned(
                 [primaryFocus   |-> SliceOf(core, 3),
                  secondaryFocus |-> SliceOf(optional, 2),
                  prioritizedSkills |-> <<>>,
                  potentialScoreGain |-> 0,
                  urgency |-> IF Len(core.v) >= 3 THEN "HIGH"
                              ELSE IF Len(core.v) > 0 THEN "MEDIUM" ELSE "LOW"])

\* .slice(...).forEach throws unless the list is an array.
decideSkillsGap(ctx) ==
    LET core     == ctx.missingCoreSkills
        optional == ctx.missingOptionalSkills
        gain     == 5 * Len(core.v) + 2 * Len(optional.v)
        room     == 100 - Or(ctx.coreMatchRate, JsNum(0)).v
    IN  IF ~IsArray(core)
        THEN Thrown("TypeError: missingCoreSkills.slice(...).forEach is not a function")
        ELSE IF ~IsArray(optional)
        THEN Thrown("TypeError: missingOptionalSkills.slice(...).forEach is not a function")
        ELSE Returned(
                 [primaryFocus   |-> SliceOf(core, 3),
                  secondaryFocus |-> SliceOf(optional, 2),
                  prioritizedSkills |->
                      [i \in 1..Len(Slice(core.v, 5)) |->
                           [skill |-> core.v[i], priority |-> "HIGH", impact |-> 10,
                            recommendation |-> "Add \"" \o core.v[i].v
                                \o "\" to your resume - this is a core requirement."]]
                      \o [i \in 1..Len(Slice(optional.v, 3)) |->
                           [skill |-> optional.v[i], priority |-> "MEDIUM", impact |-> 3,
                            recommendation |-> "Consider adding \"" \o optional.v[i].v
                                \o "\" to stand out from other candidates."]],
                  potentialScoreGain |-> IF gain < room THEN gain ELSE room,
                  urgency |-> IF Len(core.v) > 3 THEN "HIGH"
                              ELSE IF Len(core.v) > 0 THEN "MEDIUM" ELSE "LOW"])

decideJDMatch(ctx) ==
    LET matchPercentage ==
            IF ctx.totalRequired.v > 0
            THEN RoundHalfUp(100 * ctx.matchCount.v, ctx.totalRequired.v) ELSE 0
    IN  IF ctx.matchedSkills.t \notin {"array", "string"}
        THEN Thrown("TypeError: matchedSkills.slice is not a function")
        ELSE IF ctx.missingSkills.t \notin {"array", "string"}
        THEN Thrown("TypeError: missingSkills.slice is not a function")
        ELSE Returned(
                 [fitLevel |-> IF matchPercentage >= 80 THEN "STRONG_FIT"
                               ELSE IF matchPercentage >= 60 THEN "GOOD_FIT"
                               ELSE IF matchPercentage >= 40 THEN "PARTIAL_FIT"
                               ELSE "WEAK_FIT",
                  matchPercentage   |-> matchPercentage,
                  matchedCount      |-> ctx.matchCount,
                  totalRequired     |-> ctx.totalRequired,
                  topMatches        |-> SliceOf(ctx.matchedSkills, 5),
                  topGaps           |-> SliceOf(ctx.missingSkills, 5),
                  shouldApply       |-> matchPercentage >= 50,
                  improvementNeeded |-> SliceOf(ctx.missingSkills, 3)])

\* issues.sort by severity is stable: the one issue that can move forward
\* is a HIGH low-score issue behind a MEDIUM weak-verbs issue.
decideExperienceImprove(ctx) ==
    LET weak == IF OptLength(ctx.weakVerbs) > 0
                THEN <<[type     |-> "WEAK_VERBS",
                        severity |-> IF OptLength(ctx.weakVerbs) > 3 THEN "HIGH" ELSE "MEDIUM",
                        details  |-> SliceOf(ctx.weakVerbs, 5),
                        fix      |-> "Replace weak verbs with strong action verbs like \"Led\", \"Developed\", \"Achieved\", \"Implemented\""]>>
                ELSE <<>>
        low  == IF ctx.experienceScore.t # "null" /\ Less(ctx.experienceScore, 60)
                THEN <<[type     |-> "LOW_EXPERIENCE_SCORE",
                        severity |-> "HIGH",
                        score    |-> ctx.experienceScore,
                        fix      |-> "Quantify achievements with numbers and metrics"]>>
                ELSE <<>>
        issues == IF Len(weak) = 1 /\ Len(low) = 1 /\ weak[1].severity = "MEDIUM"
                  THEN low \o weak ELSE weak \o low
    IN  Returned(
            [primaryIssues   |-> Slice(issues, 2),
             allIssues       |-> issues,
             actionVerbs     |-> <<"Led", "Developed", "Implemented", "Achieved",
                                   "Increased", "Reduced", "Managed", "Created">>,
             recommendations |-> ctx.recommendations])

decideKeywordSuggestion(ctx) ==
    LET Keywords(priority, n) ==
            LET chosen == Slice(SelectSeq(ctx.suggestedKeywords.v, LAMBDA k :
                              k.v.priority = JsStr(priority)), n)
            IN  [i \in 1..Len(chosen) |-> chosen[i].v.keyword]
    IN  IF ctx.alreadyPresent.t \notin {"array", "string"}
        THEN Thrown("TypeError: alreadyPresent.slice is not a function")
        ELSE Returned(
                 [mustAdd         |-> Keywords("high", 5),
                  niceToHave      |-> Keywords("medium", 3),
                  alreadyIncluded |-> SliceOf(ctx.alreadyPresent, 5),
                  totalMissing    |-> ctx.totalMissing,
                  estimatedImpact |-> IF Len(Keywords("high", 5)) > 3
                                      THEN "SIGNIFICANT" ELSE "MODERATE"])

\* formatIssues.forEach throws for a string that is not empty.
decideFormattingFeedback(ctx) ==
    IF IsString(ctx.formatIssues) /\ Len(ctx.formatIssues.v) > 0
    THEN Thrown("TypeError: formatIssues.forEach is not a function")
    ELSE Returned(
             [formatScore |-> ctx.formatScore,
              issues |-> IF IsArray(ctx.formatIssues)
                         THEN [i \in 1..Len(ctx.formatIssues.v) |->
                                   [type        |-> "FORMAT_ISSUE",
                                    description |-> ctx.formatIssues.v[i],
                                    severity    |-> "MEDIUM"]]
                         ELSE <<>>,
              recommendations |-> SliceOf(ctx.recommendations, 3),
              generalTips |-> <<"Use consistent formatting throughout",
                                "Keep resume to 1-2 pages",
                                "Use standard section headers",
                                "Avoid tables and graphics for ATS compatibility">>])

decideResumeRewrite(ctx) ==
    Returned(
        [requiresLLM |-> TRUE,
         weakVerbs   |-> Or(ctx.weakVerbs, JsArr(<<>>)),
         guidelines  |-> <<"Start bullets with strong action verbs",
                           "Quantify achievements when possible",
                           "Focus on impact and results",
                           "Use industry-specific keywords">>])

decide(ctx, intent) ==
    IF ctx.type = "ERROR" THEN Returned([error |-> TRUE, message |-> ctx.error])
    ELSE CASE intent = "SCORE_EXPLANATION"   -> decideScoreExplanation(ctx)
           [] intent = "SKILLS_GAP"          -> decideSkillsGap(ctx)
           [] intent = "JD_MATCH"            -> decideJDMatch(ctx)
           [] intent = "EXPERIENCE_IMPROVE"  -> decideExperienceImprove(ctx)
           [] intent = "KEYWORD_SUGGESTION"  -> decideKeywordSuggestion(ctx)
           [] intent = "FORMATTING_FEEDBACK" -> decideFormattingFeedback(ctx)
           [] intent = "RESUME_REWRITE"      -> decideResumeRewrite(ctx)
           [] OTHER ->
                  Returned([general |-> TRUE,
                            message |-> "Please ask a specific question about your resume or ATS score."])

(***************************************************************************)
(* AI Assistant: response generator (ai/responses/generator.js)            *)
(*                                                                         *)
(* The text that renderTemplate produces is kept as the template it is     *)
(* rendered from and the data handed to it.                                *)
(***************************************************************************)
Rendered(template, data) == [template |-> template, data |-> data]

generateResponse(intent, ctx, decision_) ==
    IF "error" \in DOMAIN decision_
    THEN Returned(Rendered("ERROR", [message |-> decision_.message]))
    ELSE CASE intent = "SCORE_EXPLANATION" ->
                  Returned(Rendered("SCORE_EXPLANATION." \o decision_.category,
                      [overallScore     |-> ctx.overallScore,
                       sectionBreakdown |-> ctx.sectionScores,
                       skills           |-> GetField(ctx.sectionScores, "skills"),
                       experience       |-> GetField(ctx.sectionScores, "experience"),
                       education        |-> GetField(ctx.sectionScores, "education"),
                       format           |-> GetField(ctx.sectionScores, "format"),
                       lowestSection    |-> ctx.lowestSection,
                       highestSection   |-> ctx.highestSection,
                       primaryIssue     |-> decision_.primaryIssue,
                       actionItems      |-> decision_.actionItems]))
           [] intent = "SKILLS_GAP" ->
                  Returned(Rendered("SKILLS_GAP." \o decision_.urgency \o "_URGENCY",
                      [missingCoreCount   |-> OptLength(ctx.missingCoreSkills),
                       primaryFocus       |-> decision_.primaryFocus,
                       secondaryFocus     |-> decision_.secondaryFocus,
                       hasSecondary       |-> OptLength(decision_.secondaryFocus) > 0,
                       potentialScoreGain |-> decision_.potentialScoreGain,
                       matchedCount       |-> OptLength(ctx.matchedCoreSkills),
                       totalSkills        |-> Or(ctx.totalCoreSkills, JsNum(0))]))
           [] intent = "JD_MATCH" ->
                  Returned(Rendered("JD_MATCH." \o decision_.fitLevel,
                      [matchPercentage |-> decision_.matchPercentage,
                       matchedCount    |-> decision_.matchedCount,
                       totalRequired   |-> decision_.totalRequired,
                       topMatches      |-> Or(decision_.topMatches, JsArr(<<>>)),
                       topGaps         |-> Or(decision_.topGaps, JsArr(<<>>))]))
           [] intent = "EXPERIENCE_IMPROVE" ->
                  Returned(Rendered("EXPERIENCE_IMPROVE",
                      [hasWeakVerbs  |-> OptLength(ctx.weakVerbs) > 0,
                       weakVerbs     |-> ctx.weakVerbs,
                       actionVerbs   |-> decision_.actionVerbs,
                       primaryIssues |-> decision_.primaryIssues]))
           [] intent = "KEYWORD_SUGGESTION" ->
                  Returned(Rendered("KEYWORD_SUGGESTION",
                      [mustAdd         |-> decision_.mustAdd,
                       niceToHave      |-> decision_.niceToHave,
                       hasNiceToHave   |-> Len(decision_.niceToHave) > 0,
                       alreadyCount    |-> OptLength(ctx.alreadyPresent),
                       estimatedImpact |-> decision_.estimatedImpact]))
           [] intent = "FORMATTING_FEEDBACK" ->
                  Returned(Rendered("FORMATTING_FEEDBACK",
                      [hasScore        |-> ctx.formatScore.t \notin {"null", "undefined"},
                       formatScore     |-> ctx.formatScore,
                       hasIssues       |-> Len(decision_.issues) > 0,
                       issues          |-> decision_.issues,
                       recommendations |-> decision_.recommendations,
                       generalTips     |-> decision_.generalTips]))
           [] intent = "RESUME_REWRITE" ->
                  IF ~IsArray(ctx.weakVerbs)
                  THEN Thrown("TypeError: context.weakVerbs?.join is not a function")
                  ELSE Returned(Rendered("RESUME_REWRITE",
                           [hasWeakVerbs |-> Len(ctx.weakVerbs.v) > 0,
                            weakVerbs    |-> JoinComma([i \in 1..Len(ctx.weakVerbs.v) |->
                                                           ctx.weakVerbs.v[i].v]),
                            guidelines   |-> decision_.guidelines]))
           [] OTHER ->
                  Returned("I can help you with your resume and ATS optimization. What would you like to know?")

(***************************************************************************)
(* AI Assistant: processQuery (ai/assistant.js)                            *)
(*                                                                         *)
(* processQuery is an async function: what it throws rejects the promise   *)
(* it returns.  The call is followed step by step; trace lists the steps   *)
(* it has taken.                                                           *)
(***************************************************************************)
\* Mutant of DOMAIN_REFUSAL: the refusal carries the intent name of
\* analyzeQuery as its type.
DOMAIN_REFUSAL_OutOfScope ==
    [success     |-> FALSE,
     type        |-> "OUT_OF_SCOPE",
     message     |-> "I can only assist with resume analysis and ATS optimization.\n\n**Try asking:**\n- \"Why is my score low?\"\n- \"What skills am I missing?\"\n- \"How can I improve my experience section?\"\n- \"How well do I match this job?\"",
     suggestions |-> <<"Why is my score low?", "What skills am I missing?",
                       "How can I improve my experience section?">>]

\* Lines 14-29.  The bullet character of the message (U+2022) is written "-".
DOMAIN_REFUSAL ==
    [success     |-> FALSE,
     type        |-> "DOMAIN_REFUSAL",
     message     |-> "I can only assist with resume analysis and ATS optimization.\n\n**Try asking:**\n- \"Why is my score low?\"\n- \"What skills am I missing?\"\n- \"How can I improve my experience section?\"\n- \"How well do I match this job?\"",
     suggestions |-> <<"Why is my score low?", "What skills am I missing?",
                       "How can I improve my experience section?">>]

requiresATSData(intent) ==
    intent \in {"SCORE_EXPLANATION", "SKILLS_GAP", "JD_MATCH", "EXPERIENCE_IMPROVE",
                "KEYWORD_SUGGESTION", "FORMATTING_FEEDBACK"}

\* processQuery as one call: the outcome of lines 47-129 for the arguments.
processQuery(query, atsResultArg) ==
    IF ~Truthy(query) \/ ~IsString(query)
    THEN Returned([success |-> FALSE, type |-> "ERROR",
                   message |-> "Please enter a valid question."])
    ELSE
    Bind(IF atsResultArg = JsUndefined THEN JsNull ELSE atsResultArg, LAMBDA ats :
    Bind(Trim(query.v), LAMBDA trimmed :
        IF Len(trimmed) = 0
        THEN Returned([success |-> FALSE, type |-> "ERROR",
                       message |-> "Please enter a question about your resume or ATS score."])
        ELSE
        Bind(analyzeQuery(JsStr(trimmed)), LAMBDA analyzed :
            IF ~analyzed.isValid THEN Returned(DOMAIN_REFUSAL)
            ELSE IF analyzed.needsClarification
            THEN Returned(
                     [success         |-> TRUE,
                      type            |-> "CLARIFICATION",
                      intent          |-> analyzed.intent,
                      confidence      |-> analyzed.confidence,
                      message         |-> analyzed.clarificationQuestion,
                      possibleIntents |-> IF "possibleIntents" \in DOMAIN analyzed
                                          THEN analyzed.possibleIntents ELSE <<>>])
            ELSE IF ~Truthy(ats) /\ requiresATSData(analyzed.intent)
            THEN Returned(
                     [success |-> FALSE,
                      type    |-> "MISSING_DATA",
                      message |-> "I need your ATS analysis results to answer this question. Please upload your resume and run an analysis first.",
                      intent  |-> analyzed.intent])
            ELSE
            Bind(buildContext(Or(ats, JsObj(<<>>)), analyzed.intent, trimmed), LAMBDA built :
                IF built.threw THEN built
                ELSE IF built.value.type = "ERROR"
                THEN Returned([success |-> FALSE, type |-> "ERROR",
                               message |-> built.value.error])
                ELSE
                Bind(decide(built.value, analyzed.intent), LAMBDA decided :
                    IF decided.threw THEN decided
                    ELSE
                    Bind(generateResponse(analyzed.intent, built.value, decided.value),
                         LAMBDA rendered :
                        IF rendered.threw THEN rendered
                        ELSE Returned(
                                 [success    |-> TRUE,
                                  type       |-> "RESPONSE",
                                  intent     |-> analyzed.intent,
                                  confidence |-> analyzed.confidence,
                                  message    |-> rendered.value,
                                  needsLLM   |-> /\ analyzed.intent = "RESUME_REWRITE"
                                                 /\ decided.value.requiresLLM,
                                  context    |->
                                      [type         |-> built.value.type,
                                       overallScore |->
                                           IF "overallScore" \in DOMAIN built.value
                                           THEN Or(built.value.overallScore, JsNull)
                                           ELSE JsNull]])))))))

\* atsResult = null: the default takes the place of undefined.
atsResult == IF atsArg = JsUndefined THEN JsNull ELSE atsArg

trimmedQuery == Trim(queryArg.v)

\* Lines 48-64: the argument is checked and trimmed.
ReceiveQuery ==
    /\ pc = "query"
    /\ trace' = Append(trace, "RECEIVED")
    /\ IF ~Truthy(queryArg) \/ ~IsString(queryArg)
       THEN /\ response' = Returned([success |-> FALSE, type |-> "ERROR",
                                     message |-> "Please enter a valid question."])
            /\ pc' = "returned"
       ELSE IF Len(trimmedQuery) = 0
       THEN /\ response' = Returned([success |-> FALSE, type |-> "ERROR",
                                     message |-> "Please enter a question about your resume or ATS score."])
            /\ pc' = "returned"
       ELSE /\ pc' = "received"
            /\ UNCHANGED response
    /\ UNCHANGED <<queryArg, atsArg, domainResult, intentResult, context, decision>>
    /\ UNCHANGED <<normVars, compareVars, scoreVars, extractVars, analyzeVars, simulateVars, heap, platformVars>>

\* Line 67, analyzeQuery up to its domain check (intents/index.js 193).
DomainCheck ==
    /\ pc = "received"
    /\ domainResult' = validateDomain(trimmedQuery)
    /\ trace' = Append(trace, "DOMAIN_CHECK")
    /\ pc' = "domain_checked"
    /\ UNCHANGED <<queryArg, atsArg, intentResult, context, decision, response>>
    /\ UNCHANGED <<normVars, compareVars, scoreVars, extractVars, analyzeVars, simulateVars, heap, platformVars>>

\* analyzeQuery returns OUT_OF_SCOPE (intents/index.js 195-202) and
\* processQuery returns the refusal (lines 70-72).
Refuse ==
    /\ pc = "domain_checked"
    /\ ~domainResult.isValid
    /\ intentResult' = analyzeQuery(JsStr(trimmedQuery))
    /\ response' = Returned(DOMAIN_REFUSAL)
    /\ trace' = Append(trace, "REFUSED")
    /\ pc' = "returned"
    /\ UNCHANGED <<queryArg, atsArg, domainResult, context, decision>>
    /\ UNCHANGED <<normVars, compareVars, scoreVars, extractVars, analyzeVars, simulateVars, heap, platformVars>>

\* analyzeQuery goes on to detectIntent (intents/index.js 205-211).
ClassifyIntent ==
    /\ pc = "domain_checked"
    /\ domainResult.isValid
    /\ intentResult' = analyzeQuery(JsStr(trimmedQuery))
    /\ trace' = Append(trace, "INTENT_CLASSIFIED")
    /\ pc' = "classified"
    /\ UNCHANGED <<queryArg, atsArg, domainResult, context, decision, response>>
    /\ UNCHANGED <<normVars, compareVars, scoreVars, extractVars, analyzeVars, simulateVars, heap, platformVars>>

\* Lines 75-84.
Clarify ==
    /\ pc = "classified"
    /\ intentResult.needsClarification
    /\ response' = Returned(
           [success         |-> TRUE,
            type            |-> "CLARIFICATION",
            intent          |-> intentResult.intent,
            confidence      |-> intentResult.confidence,
            message         |-> intentResult.clarificationQuestion,
            possibleIntents |-> IF "possibleIntents" \in DOMAIN intentResult
                                THEN intentResult.possibleIntents ELSE <<>>])
    /\ trace' = Append(trace, "CLARIFICATION")
    /\ pc' = "returned"
    /\ UNCHANGED <<queryArg, atsArg, domainResult, intentResult, context, decision>>
    /\ UNCHANGED <<normVars, compareVars, scoreVars, extractVars, analyzeVars, simulateVars, heap, platformVars>>

\* Lines 87-94.
ReportMissingData ==
    /\ pc = "classified"
    /\ ~intentResult.needsClarification
    /\ ~Truthy(atsResult) /\ requiresATSData(intentResult.intent)
    /\ response' = Returned(
           [success |-> FALSE,
            type    |-> "MISSING_DATA",
            message |-> "I need your ATS analysis results to answer this question. Please upload your resume and run an analysis first.",
            intent  |-> intentResult.intent])
    /\ trace' = Append(trace, "MISSING_DATA")
    /\ pc' = "returned"
    /\ UNCHANGED <<queryArg, atsArg, domainResult, intentResult, context, decision>>
    /\ UNCHANGED <<normVars, compareVars, scoreVars, extractVars, analyzeVars, simulateVars, heap, platformVars>>

\* Line 97.
BuildContext ==
    /\ pc = "classified"
    /\ ~intentResult.needsClarification
    /\ ~(~Truthy(atsResult) /\ requiresATSData(intentResult.intent))
    /\ LET built == buildContext(Or(atsResult, JsObj(<<>>)), intentResult.intent, trimmedQuery)
       IN  IF built.threw
           THEN /\ response' = built
                /\ pc' = "rejected"
                /\ UNCHANGED <<context, trace>>
           ELSE /\ context' = built.value
                /\ trace' = Append(trace, "CONTEXT_BUILT")
                /\ pc' = "context_built"
                /\ UNCHANGED response
    /\ UNCHANGED <<queryArg, atsArg, domainResult, intentResult, decision>>
    /\ UNCHANGED <<normVars, compareVars, scoreVars, extractVars, analyzeVars, simulateVars, heap, platformVars>>

\* Lines 100-106.
ReportContextError ==
    /\ pc = "context_built"
    /\ context.type = "ERROR"
    /\ response' = Returned([success |-> FALSE, type |-> "ERROR", message |-> context.error])
    /\ trace' = Append(trace, "ERROR")
    /\ pc' = "returned"
    /\ UNCHANGED <<queryArg, atsArg, domainResult, intentResult, context, decision>>
    /\ UNCHANGED <<normVars, compareVars, scoreVars, extractVars, analyzeVars, simulateVars, heap, platformVars>>

\* Line 109.
Decide ==
    /\ pc = "context_built"
    /\ context.type # "ERROR"
    /\ LET decided == decide(context, intentResult.intent)
       IN  IF decided.threw
           THEN /\ response' = decided
                /\ pc' = "rejected"
                /\ UNCHANGED <<decision, trace>>
           ELSE /\ decision' = decided.value
                /\ trace' = Append(trace, "DECIDED")
                /\ pc' = "decided"
                /\ UNCHANGED response
    /\ UNCHANGED <<queryArg, atsArg, domainResult, intentResult, context>>
    /\ UNCHANGED <<normVars, compareVars, scoreVars, extractVars, analyzeVars, simulateVars, heap, platformVars>>

\* Lines 112-128.
Render ==
    /\ pc = "decided"
    /\ LET rendered == generateResponse(intentResult.intent, context, decision)
       IN  IF rendered.threw
           THEN /\ response' = rendered
                /\ pc' = "rejected"
                /\ UNCHANGED trace
           ELSE /\ response' = Returned(
                        [success    |-> TRUE,
                         type       |-> "RESPONSE",
                         intent     |-> intentResult.intent,
                         confidence |-> intentResult.confidence,
                         message    |-> rendered.value,
                         needsLLM   |-> /\ intentResult.intent = "RESUME_REWRITE"
                                        /\ decision.requiresLLM,
                         context    |->
                             [type         |-> context.type,
                              overallScore |-> IF "overallScore" \in DOMAIN context
                                               THEN Or(context.overallScore, JsNull)
                                               ELSE JsNull]])
                /\ trace' = Append(trace, "RENDERED")
                /\ pc' = "returned"
    /\ UNCHANGED <<queryArg, atsArg, domainResult, intentResult, context, decision>>
    /\ UNCHANGED <<normVars, compareVars, scoreVars, extractVars, analyzeVars, simulateVars, heap, platformVars>>

(***************************************************************************)
(* SpecAssistant: one call of processQuery.                                *)
(***************************************************************************)
Queries ==
    {JsStr(q) : q \in
        {"Why is my score low?", "What skills am I missing?",
         "How well does my resume match the job description?",
         "How can I improve my experience section?", "Suggest keywords to add",
         "How is my format and layout structure?",
         "Rewrite this bullet with stronger action verbs",
         "Analyze my education section",
         "improve", " Improve ", "help", "fix", "what now?",
         "my resume", "skills", "improve my resume", "Any formatting issues in my resume?",
         "What is the weather today?", "Who is the best recruiter?", "hello there",
         "", "   "}}
    \cup {JsNull, JsUndefined, JsNum(42), JsArr(<<JsStr("score")>>)}

\* The result of a scan: a score, the four skill lists with missingCore
\* missing core skills, recommendations and feedback.
ScanResult(atsScore, missingCore) ==
    JsObj([atsScore              |-> JsNum(atsScore),
           matchedCoreSkills     |-> TierSkills("core", 0, 2),
           missingCoreSkills     |-> TierSkills("core", 2, missingCore),
           matchedOptionalSkills |-> TierSkills("optional", 0, 1),
           missingOptionalSkills |-> TierSkills("optional", 1, 2),
           recommendations       |-> JsArr(<<JsStr("Use stronger action verbs"),
                                             JsStr("Add the missing core skills"),
                                             JsStr("Keep a consistent format")>>),
           feedback              |-> JsStr("Good match"),
           explanation           |-> JsStr("Core skills weigh 70%")])

AtsResults ==
    {ScanResult(atsScore, missingCore) :
         atsScore \in {0, 35, 72, 88}, missingCore \in {0, 2, MaxGap - 1, MaxGap}}
    \cup {JsObj([atsScore |-> JsNum(64), skillsScore |-> JsNum(45),
                 experienceScore |-> JsNum(45), educationScore |-> JsNum(80),
                 formatScore |-> JsNum(80),
                 weakVerbs |-> JsArr(<<JsStr("helped"), JsStr("worked")>>),
                 formatIssues |-> JsArr(<<JsStr("Uses a table")>>)]),
          JsObj(<<>>), JsNull, JsUndefined,
          JsStr("72"), JsNum(72),
          JsObj([atsScore |-> JsNum(72), missingCoreSkills |-> JsStr("react")]),
          JsObj([atsScore |-> JsNum(72), matchedCoreSkills |-> JsNum(3)]),
          JsObj([atsScore |-> JsNum(72), recommendations |-> JsStr("Add metrics")]),
          JsObj([atsScore |-> JsNum(72), weakVerbs |-> JsStr("helped")]),
          JsObj([atsScore |-> JsNum(72), formatIssues |-> JsStr("Uses a table")])}

InitAssistant ==
    /\ pc = "query"
    /\ queryArg \in Queries
    /\ atsArg \in AtsResults
    /\ trace = <<>>
    /\ domainResult = Idle /\ intentResult = Idle /\ context = Idle
    /\ decision = Idle /\ response = Idle
    /\ NormIdle /\ CompareIdle /\ ScoreIdle /\ ExtractIdle /\ AnalyzeIdle /\ SimulateIdle /\ PlatformIdle
    /\ heap = Idle

NextAssistant ==
    \/ ReceiveQuery
    \/ DomainCheck
    \/ Refuse
    \/ ClassifyIntent
    \/ Clarify
    \/ ReportMissingData
    \/ BuildContext
    \/ ReportContextError
    \/ Decide
    \/ Render

SpecAssistant == InitAssistant /\ [][NextAssistant]_vars

(***************************************************************************)
(* SpecIntent: one call of one of the three functions of                   *)
(* ai/intents/index.js on a query string.                                  *)
(***************************************************************************)
IntentFragments ==
    {"why is my score low", "analyze my education section", "what skills am i missing",
     "rewrite this bullet", "skill gap", "my score", "my resume", "improve", "help",
     "weather"}

\* The queries made of at most n fragments with a space between them.
RECURSIVE FragmentQueries(_)
FragmentQueries(n) ==
    IF n = 1 THEN IntentFragments
    ELSE FragmentQueries(n - 1)
             \cup {q \o " " \o f : q \in FragmentQueries(n - 1), f \in IntentFragments}

IntentQueries ==
    FragmentQueries(MaxFragments)
        \cup {"", "   ", "hello there", "HELP", "Better", "fix", "How now?", "what   now", " Improve ",
              "Why is my score low? Analyze my education section",
              "Who is the best recruiter for my resume",
              "please tell me all about that thing over there near your resume today okay thanks"}

InitIntent ==
    /\ pc = "intent"
    /\ queryArg \in {JsStr(q) : q \in IntentQueries}
    /\ atsArg = Idle /\ trace = Idle /\ domainResult = Idle /\ intentResult = Idle
    /\ context = Idle /\ decision = Idle /\ response = Idle
    /\ NormIdle /\ CompareIdle /\ ScoreIdle /\ ExtractIdle /\ AnalyzeIdle /\ SimulateIdle /\ PlatformIdle
    /\ heap = Idle

ValidateDomain ==
    /\ pc = "intent"
    /\ domainResult' = validateDomain(queryArg.v)
    /\ pc' = "validated"
    /\ UNCHANGED <<queryArg, atsArg, trace, intentResult, context, decision, response>>
    /\ UNCHANGED <<normVars, compareVars, scoreVars, extractVars, analyzeVars, simulateVars, heap, platformVars>>

DetectIntent ==
    /\ pc = "intent"
    /\ intentResult' = detectIntent(queryArg.v)
    /\ pc' = "detected"
    /\ UNCHANGED <<queryArg, atsArg, trace, domainResult, context, decision, response>>
    /\ UNCHANGED <<normVars, compareVars, scoreVars, extractVars, analyzeVars, simulateVars, heap, platformVars>>

AnalyzeQuery ==
    /\ pc = "intent"
    /\ intentResult' = analyzeQuery(queryArg)
    /\ pc' = "analyzed"
    /\ UNCHANGED <<queryArg, atsArg, trace, domainResult, context, decision, response>>
    /\ UNCHANGED <<normVars, compareVars, scoreVars, extractVars, analyzeVars, simulateVars, heap, platformVars>>

NextIntent == ValidateDomain \/ DetectIntent \/ AnalyzeQuery

SpecIntent == InitIntent /\ [][NextIntent]_vars

(***************************************************************************)
(* SpecContext: one call of buildContext on an ATS result object.          *)
(***************************************************************************)
\* The property name with each of the values, or no property at all.
Optional(name, values) == {<<>>} \cup {name :> value : value \in values}

AtsObjects ==
    {JsObj(a @@ b @@ c @@ d @@ e @@ f) :
        a \in Optional("atsScore", {JsNum(0), JsNum(72)}),
        b \in Optional("experienceScore", {JsNum(0), JsNum(45)}),
        c \in Optional("formatScore", {JsNum(0), JsNum(80)}),
        d \in Optional("explanation", {JsStr("Core skills weigh 70%")}),
        e \in Optional("missingCoreSkills", {JsArr(<<>>), TierSkills("core", 0, MaxGap)}),
        f \in Optional("recommendations",
                       {JsArr(<<JsStr("Use stronger action verbs"),
                                JsStr("Keep a consistent format")>>)})}

ContextIntents ==
    {INTENT_PATTERNS[i].intent : i \in 1..Len(INTENT_PATTERNS)} \cup {"UNKNOWN"}

InitContext ==
    /\ pc = "context"
    /\ atsArg \in AtsObjects
    /\ intentResult \in {[intent |-> intent] : intent \in ContextIntents}
    /\ queryArg = JsStr("Rewrite this bullet")
    /\ context = Idle
    /\ trace = Idle /\ domainResult = Idle /\ decision = Idle /\ response = Idle
    /\ NormIdle /\ CompareIdle /\ ScoreIdle /\ ExtractIdle /\ AnalyzeIdle /\ SimulateIdle /\ PlatformIdle
    /\ heap = Idle

\* context holds the outcome of the call.
BuildContextAlone ==
    /\ pc = "context"
    /\ context' = buildContext(atsArg, intentResult.intent, queryArg.v)
    /\ pc' = "built"
    /\ UNCHANGED <<queryArg, atsArg, trace, domainResult, intentResult, decision, response>>
    /\ UNCHANGED <<normVars, compareVars, scoreVars, extractVars, analyzeVars, simulateVars, heap, platformVars>>

NextContext == BuildContextAlone

SpecContext == InitContext /\ [][NextContext]_vars

(***************************************************************************)
(* SpecConcurrent: several callers, each with one call of processQuery.    *)
(*                                                                         *)
(* processQuery has no await: a call runs from its first line to its       *)
(* return before another call starts, so the calls interleave as wholes.   *)
(* A returned object is a reference into heap.  The object literals of     *)
(* processQuery are new objects; DOMAIN_REFUSAL is the one object that the *)
(* module creates when it is loaded.  A caller holds the object it         *)
(* received and can write to it.                                           *)
(***************************************************************************)
Callers == 1..MaxCallers

ModuleObjects == {"DOMAIN_REFUSAL"}

CallerQueries == {JsStr("What is the weather today?"), JsStr("improve"), JsStr("Why is my score low?")}

CallerResults == {JsNull, ScanResult(72, 2)}

InitConcurrent ==
    /\ pc = [c \in Callers |-> "query"]
    /\ queryArg \in [Callers -> CallerQueries]
    /\ atsArg \in [Callers -> CallerResults]
    /\ response = [c \in Callers |-> Idle]
    /\ heap = [o \in ModuleObjects |-> DOMAIN_REFUSAL]
    /\ trace = Idle /\ domainResult = Idle /\ intentResult = Idle
    /\ context = Idle /\ decision = Idle
    /\ NormIdle /\ CompareIdle /\ ScoreIdle /\ ExtractIdle /\ AnalyzeIdle /\ SimulateIdle /\ PlatformIdle

\* The call of caller c.  return DOMAIN_REFUSAL (line 71) hands out the
\* module's object as it is at that time; every other return is an object
\* literal.
ProcessQuery(c) ==
    /\ pc[c] = "query"
    /\ LET outcome == processQuery(queryArg[c], atsArg[c])
           new     == "response" \o ToString(c)
       IN  IF outcome.threw
           THEN /\ response' = [response EXCEPT ![c] = outcome]
                /\ UNCHANGED heap
           ELSE IF outcome.value.type = "DOMAIN_REFUSAL"
           THEN /\ response' = [response EXCEPT ![c] =
                                    [threw    |-> FALSE,
                                     ref      |-> "DOMAIN_REFUSAL",
                                     received |-> heap["DOMAIN_REFUSAL"]]]
                /\ UNCHANGED heap
           ELSE /\ response' = [response EXCEPT ![c] =
                                    [threw    |-> FALSE,
                                     ref      |-> new,
                                     received |-> outcome.value]]
                /\ heap' = (new :> outcome.value) @@ heap
    /\ pc' = [pc EXCEPT ![c] = "done"]
    /\ UNCHANGED <<queryArg, atsArg, trace, domainResult, intentResult, context, decision>>
    /\ UNCHANGED <<normVars, compareVars, scoreVars, extractVars, analyzeVars, simulateVars, platformVars>>

\* Caller c writes to the object it received.
CallerEdits(c) ==
    /\ pc[c] = "done"
    /\ ~response[c].threw
    /\ heap' = [heap EXCEPT ![response[c].ref].message = "(edited by the caller)"]
    /\ pc' = [pc EXCEPT ![c] = "edited"]
    /\ UNCHANGED <<queryArg, atsArg, trace, domainResult, intentResult, context, decision, response>>
    /\ UNCHANGED <<normVars, compareVars, scoreVars, extractVars, analyzeVars, simulateVars, platformVars>>

NextConcurrent == \E c \in Callers : ProcessQuery(c) \/ CallerEdits(c)

SpecConcurrent == InitConcurrent /\ [][NextConcurrent]_vars

(***************************************************************************)
(* SpecExtract: one call of extractWeightedJDSkills on a job text made of  *)
(* lines, some with a phrase of CORE_KEYWORDS, some with a phrase of       *)
(* OPTIONAL_KEYWORDS, some with both and some with neither.                *)
(***************************************************************************)
JobLines ==
    {"Required: React, Docker",
     "Nice to have: Docker, AWS",
     "Python is required, Kafka is a plus",
     "Preferred: Python, AWS",
     "We use React and Redis",
     "Must have Go",
     "Great team"}

\* The texts of at most n lines, one line after the other.
RECURSIVE LineTexts(_)
LineTexts(n) ==
    IF n = 1 THEN JobLines
    ELSE LineTexts(n - 1)
             \cup {text \o "\n" \o line : text \in LineTexts(n - 1), line \in JobLines}

JobTexts ==
    LineTexts(MaxLines)
        \cup {"", "Node.js and Vue.js", "AWS. Docker is preferred. AWS is essential",
              "Strong knowledge of SQL Server is a bonus",
              "Required: C#, C++ and Java",
              "We use React and Redis\nRequired: React, Docker\nNice to have: Docker, AWS",
              "Preferred: Python, AWS\nGreat team\nPython is required, Kafka is a plus"}

InitExtract ==
    /\ pc = "extract"
    /\ jobText \in {JsStr(text) : text \in JobTexts}
    /\ extraction = Idle
    /\ NormIdle /\ CompareIdle /\ ScoreIdle /\ AnalyzeIdle /\ SimulateIdle /\ AssistantIdle /\ PlatformIdle

NextExtract == ExtractWeightedJDSkills

SpecExtract == InitExtract /\ [][NextExtract]_vars

(***************************************************************************)
(* SpecCompareAliases: one call of compareWeightedSkills on lists whose    *)
(* entries are aliases of each other in SKILL_ALIASES.                     *)
(***************************************************************************)
AliasRequirementTokens == {JsStr("JavaScript"), JsStr(" js "), JsStr("React")}

AliasResumeTokens ==
    {JsStr("js"), JsStr("JAVASCRIPT "), JsStr("reactjs"), JsStr("  "), JsNum(7)}

InitCompareAliases ==
    /\ pc = "compare"
    /\ resumeSkills \in {JsArr(a) : a \in SeqsUpTo(AliasResumeTokens, MaxResume)}
    /\ coreSkills \in {JsArr(a) : a \in SeqsUpTo(AliasRequirementTokens, MaxCore)}
    /\ optionalSkills \in {JsArr(a) : a \in SeqsUpTo(AliasRequirementTokens, MaxOptional)}
    /\ comparison = Idle
    /\ NormIdle /\ ScoreIdle /\ ExtractIdle /\ AnalyzeIdle /\ SimulateIdle /\ PlatformIdle
    /\ AssistantIdle

SpecCompareAliases == InitCompareAliases /\ [][NextCompare]_vars

(***************************************************************************)
(* SpecHandOff: analyzeResume produces an analysis, and the object it      *)
(* returned is the ATS result of a later assistant query.                  *)
(***************************************************************************)
\* The value analyzeResume returned, as the object the assistant receives
\* (res.json of the scan, analysisResult of the query's body).
AnalysisResultObject(result) ==
    JsObj([success      |-> JsBool(result.success),
           score        |-> JsNum(result.score),
           scoreLabel   |-> JsStr(result.scoreLabel),
           skillScore   |-> JsNum(result.skillScore),
           qualityScore |-> JsNum(result.qualityScore),
           skills  |-> JsObj([matched         |-> AsJsArray(result.skills.matched),
                              missing         |-> AsJsArray(result.skills.missing),
                              coreMatches     |-> AsJsArray(result.skills.coreMatches),
                              optionalMatches |-> AsJsArray(result.skills.optionalMatches)]),
           quality |-> JsObj([score        |-> JsNum(result.quality.score),
                              sections     |-> JsObj([name \in DOMAIN result.quality.sections |->
                                                         JsNum(result.quality.sections[name])]),
                              issues       |-> JsArr([i \in 1..Len(result.quality.issues) |->
                                                  JsObj([type    |-> JsStr(result.quality.issues[i].type),
                                                         message |-> JsStr(result.quality.issues[i].message)])]),
                              improvements |-> AsJsArray(result.quality.improvements)]),
           feedback |-> JsObj([summary              |-> JsStr(result.feedback.summary),
                               skillRecommendations |-> AsJsArray(result.feedback.skillRecommendations),
                               improvements         |-> AsJsArray(result.feedback.improvements),
                               criticalIssues       |-> JsArr([i \in 1..Len(result.feedback.criticalIssues) |->
                                                  JsObj([type    |-> JsStr(result.feedback.criticalIssues[i].type),
                                                         message |-> JsStr(result.feedback.criticalIssues[i].message)])])])])

\* Resumes with every section present and any list of skills.
CompleteResumes ==
    {resume \in ParsedResumes :
        /\ resume.v.personalInfo # JsUndefined
        /\ resume.v.summary = Lines /\ resume.v.experience = Lines
        /\ resume.v.education = Lines /\ resume.v.projects = Lines
        /\ resume.v.rawText = JsUndefined}

HandOffIntents == {"SCORE_EXPLANATION", "SKILLS_GAP", "JD_MATCH"}

InitHandOff ==
    /\ pc = "analyze"
    /\ resumeArg \in CompleteResumes
    /\ jobArg \in {job \in JobDescriptions : IsString(job)}
    /\ analysis = Idle
    /\ queryArg = JsStr("Why is my score low?")
    /\ intentResult \in {[intent |-> intent] : intent \in HandOffIntents}
    /\ atsArg = Idle /\ context = Idle
    /\ trace = Idle /\ domainResult = Idle /\ decision = Idle /\ response = Idle
    /\ NormIdle /\ CompareIdle /\ ScoreIdle /\ ExtractIdle /\ SimulateIdle /\ PlatformIdle
    /\ heap = Idle

\* The analysis is passed to the assistant as its ATS result, and
\* processQuery builds the context of the intent from it.
BuildContextOfAnalysis ==
    /\ pc = "analyzed"
    /\ ~analysis.threw
    /\ atsArg' = AnalysisResultObject(analysis.value)
    /\ context' = buildContext(atsArg', intentResult.intent, queryArg.v)
    /\ pc' = "built"
    /\ UNCHANGED <<queryArg, trace, domainResult, intentResult, decision, response, heap>>
    /\ UNCHANGED <<normVars, compareVars, scoreVars, extractVars, analyzeVars, simulateVars, platformVars>>

NextHandOff ==
    \/ AnalyzeResume
    \/ BuildContextOfAnalysis

SpecHandOff == InitHandOff /\ [][NextHandOff]_vars

(***************************************************************************)
(* SpecTerms: one call of extractWeightedJDSkills on a job text of one     *)
(* line, a phrase of CORE_KEYWORDS followed by a term of SKILL_LIST.       *)
(***************************************************************************)
TermTexts == {"Required: " \o SKILL_LIST[k] : k \in 1..Len(SKILL_LIST)}

InitTerms ==
    /\ pc = "extract"
    /\ jobText \in {JsStr(text) : text \in TermTexts}
    /\ extraction = Idle
    /\ NormIdle /\ CompareIdle /\ ScoreIdle /\ AnalyzeIdle /\ SimulateIdle /\ AssistantIdle /\ PlatformIdle

SpecTerms == InitTerms /\ [][NextExtract]_vars

(***************************************************************************)
(* Refresh tokens: token.service.js, authService.login, refreshToken and   *)
(* logout, and the handlers of POST /auth/refresh and POST /auth/logout.   *)
(* One registered, active user; the clock counts whole seconds.            *)
(***************************************************************************)
MaxClock == 2          \* last second the clock reaches
MaxRefreshCalls == 2   \* refresh requests that can be in flight together

UserId == "user-1"
ACCESS_TOKEN_EXPIRY == 15 * 60
REFRESH_TOKEN_EXPIRY == 7 * 24 * 60 * 60
CLOCK_TOLERANCE == 30

\* jwt.sign with HS256 is a function of the payload, the secret and the
\* options: a token is written as the claims it carries and the secret that
\* signed it.
generateAccessToken(userId, role, now) ==
    [userId |-> userId, role |-> role, type |-> "access", iat |-> now,
     exp |-> now + ACCESS_TOKEN_EXPIRY, secret |-> "accessSecret"]

generateRefreshToken(userId, now) ==
    [userId |-> userId, type |-> "refresh", iat |-> now,
     exp |-> now + REFRESH_TOKEN_EXPIRY, secret |-> "refreshSecret"]

generateTokens(userId, role, now) ==
    [accessToken  |-> generateAccessToken(userId, role, now),
     refreshToken |-> generateRefreshToken(userId, now)]

verifyRefreshToken(token, now) ==
    IF token = JsUndefined
    THEN Thrown("No token provided")
    ELSE IF token.secret # "refreshSecret"
    THEN Thrown("Invalid refresh token: invalid signature")
    ELSE IF now >= token.exp + CLOCK_TOLERANCE
    THEN Thrown("Refresh token has expired")
    ELSE IF token.type # "refresh"
    THEN Thrown("Invalid token type - expected refresh token")
    ELSE Returned(token)

\* The 401 of the catch block of the refresh handler.
RefreshRejected(presented, message) ==
    [status |-> 401, presented |-> presented, message |-> message,
     code |-> IF message = "Refresh token has expired"
              THEN "REFRESH_TOKEN_EXPIRED" ELSE "REFRESH_FAILED"]

FreeCall == [state |-> "free"]

RefreshCallers == 1..MaxRefreshCalls

\* What a client can send as its refresh token: nothing, a refresh token it
\* was handed, or the access token of the first login.
PresentableTokens ==
    issuedTokens \cup {JsUndefined, generateAccessToken(UserId, "user", 0)}

InitAuth ==
    /\ pc = "serving"
    /\ clock = 0
    /\ userRefreshToken = JsNull
    /\ issuedTokens = {}
    /\ revokedTokens = {}
    /\ refreshCalls = [c \in RefreshCallers |-> FreeCall]
    /\ authResponse = Idle
    /\ NormIdle /\ CompareIdle /\ ScoreIdle /\ ExtractIdle /\ AnalyzeIdle /\ SimulateIdle
    /\ AssistantIdle /\ RenderIdle /\ CreditIdle

\* A second passes.
Tick ==
    /\ clock < MaxClock
    /\ clock' = clock + 1
    /\ UNCHANGED <<pc, userRefreshToken, issuedTokens, revokedTokens, refreshCalls, authResponse>>
    /\ UNCHANGED <<normVars, compareVars, scoreVars, extractVars, analyzeVars, simulateVars,
                   assistantVars, renderVars, creditVars>>

\* authService.login with the right password.
Login ==
    /\ LET tokens == generateTokens(UserId, "user", clock)
       IN  /\ userRefreshToken' = tokens.refreshToken
           /\ issuedTokens' = issuedTokens \cup {tokens.refreshToken}
    /\ UNCHANGED <<pc, clock, revokedTokens, refreshCalls, authResponse>>
    /\ UNCHANGED <<normVars, compareVars, scoreVars, extractVars, analyzeVars, simulateVars,
                   assistantVars, renderVars, creditVars>>

\* POST /auth/refresh up to the await of user.save(): the token is read
\* from the request, verified, compared with the user's and new tokens are
\* generated.
RefreshFind(c, presented) ==
    /\ refreshCalls[c] = FreeCall
    /\ IF presented = JsUndefined
       THEN /\ authResponse' = [status |-> 401, presented |-> presented,
                                message |-> "Refresh token required",
                                code |-> "NO_REFRESH_TOKEN"]
            /\ UNCHANGED refreshCalls
       ELSE LET decoded == verifyRefreshToken(presented, clock)
            IN  IF decoded.threw
                THEN /\ authResponse' = RefreshRejected(presented, decoded.error)
                     /\ UNCHANGED refreshCalls
                ELSE IF userRefreshToken # presented
                THEN /\ authResponse' = RefreshRejected(presented, "Invalid refresh token")
                     /\ UNCHANGED refreshCalls
                ELSE /\ refreshCalls' =
                            [refreshCalls EXCEPT ![c] =
                                [state     |-> "saving",
                                 presented |-> presented,
                                 replayed  |-> presented \in revokedTokens,
                                 tokens    |-> generateTokens(decoded.value.userId, "user", clock)]]
                     /\ UNCHANGED authResponse
    /\ UNCHANGED <<pc, clock, userRefreshToken, issuedTokens, revokedTokens>>
    /\ UNCHANGED <<normVars, compareVars, scoreVars, extractVars, analyzeVars, simulateVars,
                   assistantVars, renderVars, creditVars>>

\* POST /auth/refresh from user.save() on: the new refresh token is stored
\* and both tokens are sent with status 200.
RefreshSave(c) ==
    /\ refreshCalls[c] # FreeCall
    /\ userRefreshToken' = refreshCalls[c].tokens.refreshToken
    /\ issuedTokens' = issuedTokens \cup {refreshCalls[c].tokens.refreshToken}
    /\ revokedTokens' = revokedTokens \cup {refreshCalls[c].presented}
    /\ authResponse' = [status    |-> 200,
                        presented |-> refreshCalls[c].presented,
                        replayed  |-> refreshCalls[c].replayed,
                        tokens    |-> refreshCalls[c].tokens]
    /\ refreshCalls' = [refreshCalls EXCEPT ![c] = FreeCall]
    /\ UNCHANGED <<pc, clock>>
    /\ UNCHANGED <<normVars, compareVars, scoreVars, extractVars, analyzeVars, simulateVars,
                   assistantVars, renderVars, creditVars>>

\* POST /auth/logout of the authenticated user: findByIdAndUpdate sets the
\* refreshToken to null.  Every token handed out so far is from before this
\* logout.
Logout ==
    /\ userRefreshToken' = JsNull
    /\ revokedTokens' = revokedTokens \cup issuedTokens
    /\ UNCHANGED <<pc, clock, issuedTokens, refreshCalls, authResponse>>
    /\ UNCHANGED <<normVars, compareVars, scoreVars, extractVars, analyzeVars, simulateVars,
                   assistantVars, renderVars, creditVars>>

NextAuth ==
    \/ Tick
    \/ Login
    \/ \E c \in RefreshCallers : \E presented \in PresentableTokens : RefreshFind(c, presented)
    \/ \E c \in RefreshCallers : RefreshSave(c)
    \/ Logout

SpecAuth == InitAuth /\ [][NextAuth]_vars

(***************************************************************************)
(* Credits: credit.service.js deductCredits and addCredits on the document *)
(* of one non-admin user, and the payment handlers of auth.routes.js.      *)
(* A call is suspended at each await, where other calls can run.           *)
(***************************************************************************)
StartCredits == 3      \* credits of the user before the first call
MaxCreditCalls == 2    \* calls of the credit service that can be in flight together
MaxLedger == 3         \* most Credit documents written in one behaviour
MaxDeliveries == 2     \* most notifications handled for one payment

CREDIT_PACKAGES ==
    <<[id |-> "starter", credits |-> 10, price |-> 99],
      [id |-> "popular", credits |-> 50, price |-> 399],
      [id |-> "pro",     credits |-> 100, price |-> 699]>>

\* packages.find(p => p.id === packageId)
PackageOf(packageId) ==
    LET hits == {i \in 1..Len(CREDIT_PACKAGES) : CREDIT_PACKAGES[i].id = packageId}
    IN  IF hits = {} THEN JsUndefined
        ELSE CREDIT_PACKAGES[CHOOSE i \in hits : \A j \in hits : i <= j]

CreditCallers == 1..MaxCreditCalls

InFlight == {c \in CreditCallers : creditCalls[c].state \in {"updating", "logging"}}

\* A new call can start while the behaviour has room for its Credit document.
CanStart(c) ==
    /\ c \notin InFlight
    /\ Len(creditLedger) + Cardinality(InFlight) < MaxLedger

\* deductCredits up to await User.findByIdAndUpdate: the user is read, the
\* balance is checked and the new balance is computed from the value read.
DeductCreditsFind(c, amount) ==
    /\ CanStart(c)
    /\ creditCalls' =
           [creditCalls EXCEPT ![c] =
               IF credits < amount
               THEN [state |-> "threw", error |-> "Insufficient credits"]
               ELSE [state |-> "updating", amount |-> -amount, type |-> "usage",
                     paymentId |-> JsNull, newBalance |-> credits - amount]]
    /\ UNCHANGED <<credits, creditLedger, deliveries>>
    /\ UNCHANGED <<pc, normVars, compareVars, scoreVars, extractVars, analyzeVars, simulateVars,
                   assistantVars, renderVars, authVars>>

\* addCredits up to await User.findByIdAndUpdate.
BeginAddCredits(c, amount, type, paymentId) ==
    /\ CanStart(c)
    /\ creditCalls' =
           [creditCalls EXCEPT ![c] =
               [state |-> "updating", amount |-> amount, type |-> type,
                paymentId |-> paymentId, newBalance |-> credits + amount]]
    /\ UNCHANGED <<credits, creditLedger>>
    /\ UNCHANGED <<pc, normVars, compareVars, scoreVars, extractVars, analyzeVars, simulateVars,
                   assistantVars, renderVars, authVars>>

AddCreditsFind(c, amount) ==
    /\ BeginAddCredits(c, amount, "bonus", JsNull)
    /\ UNCHANGED deliveries

\* await User.findByIdAndUpdate(userId, { credits: newBalance }) of either
\* function.
FindByIdAndUpdate(c) ==
    /\ creditCalls[c].state = "updating"
    /\ credits' = creditCalls[c].newBalance
    /\ creditCalls' = [creditCalls EXCEPT ![c].state = "logging"]
    /\ UNCHANGED <<creditLedger, deliveries>>
    /\ UNCHANGED <<pc, normVars, compareVars, scoreVars, extractVars, analyzeVars, simulateVars,
                   assistantVars, renderVars, authVars>>

\* await Credit.create({...}) of either function, and its return.
CreditCreate(c) ==
    /\ creditCalls[c].state = "logging"
    /\ creditLedger' = Append(creditLedger,
                              [amount       |-> creditCalls[c].amount,
                               type         |-> creditCalls[c].type,
                               paymentId    |-> creditCalls[c].paymentId,
                               balanceAfter |-> creditCalls[c].newBalance])
    /\ creditCalls' = [creditCalls EXCEPT ![c] =
                          [state |-> "returned", success |-> TRUE,
                           newBalance |-> creditCalls[c].newBalance]]
    /\ UNCHANGED <<credits, deliveries>>
    /\ UNCHANGED <<pc, normVars, compareVars, scoreVars, extractVars, analyzeVars, simulateVars,
                   assistantVars, renderVars, authVars>>

\* The payments made: one through Razorpay, one through Stripe.
Payments ==
    {[id |-> "pay_1", gateway |-> "razorpay", packageId |-> "starter"],
     [id |-> "pi_1",  gateway |-> "stripe",   packageId |-> "popular"]}

PaymentIds == {p.id : p \in Payments}

InitCredits ==
    /\ pc = "serving"
    /\ credits = StartCredits
    /\ creditLedger = <<>>
    /\ creditCalls = [c \in CreditCallers |-> FreeCall]
    /\ deliveries = [id \in PaymentIds |-> 0]
    /\ NormIdle /\ CompareIdle /\ ScoreIdle /\ ExtractIdle /\ AnalyzeIdle /\ SimulateIdle
    /\ AssistantIdle /\ RenderIdle /\ AuthIdle

CreditAmounts == {1, 2}

NextCredits ==
    \/ \E c \in CreditCallers : \E amount \in CreditAmounts : DeductCreditsFind(c, amount)
    \/ \E c \in CreditCallers : \E amount \in CreditAmounts : AddCreditsFind(c, amount)
    \/ \E c \in CreditCallers : FindByIdAndUpdate(c)
    \/ \E c \in CreditCallers : CreditCreate(c)

SpecCredits == InitCredits /\ [][NextCredits]_vars

\* POST /credits/verify-razorpay for a payment, up to the await inside
\* addCredits; a request with a wrong signature or an unknown package is
\* answered 400 and changes nothing.
VerifyRazorpay(c, payment, signatureValid, packageId) ==
    /\ payment.gateway = "razorpay"
    /\ deliveries[payment.id] < MaxDeliveries
    /\ IF signatureValid /\ PackageOf(packageId) # JsUndefined
       THEN /\ BeginAddCredits(c, PackageOf(packageId).credits, "purchase", payment.id)
            /\ deliveries' = [deliveries EXCEPT ![payment.id] = @ + 1]
       ELSE /\ c \notin InFlight
            /\ creditCalls' = [creditCalls EXCEPT ![c] = [state |-> "answered", status |-> 400]]
            /\ UNCHANGED <<credits, creditLedger, deliveries>>
            /\ UNCHANGED <<pc, normVars, compareVars, scoreVars, extractVars, analyzeVars,
                           simulateVars, assistantVars, renderVars, authVars>>

\* POST /credits/webhook/razorpay: the userId and packageId are the notes of
\* the order.
WebhookRazorpay(c, payment, event) ==
    /\ payment.gateway = "razorpay"
    /\ deliveries[payment.id] < MaxDeliveries
    /\ IF event = "payment.captured" /\ PackageOf(payment.packageId) # JsUndefined
       THEN /\ BeginAddCredits(c, PackageOf(payment.packageId).credits, "purchase", payment.id)
            /\ deliveries' = [deliveries EXCEPT ![payment.id] = @ + 1]
       ELSE /\ c \notin InFlight
            /\ creditCalls' = [creditCalls EXCEPT ![c] = [state |-> "answered", status |-> 200]]
            /\ UNCHANGED <<credits, creditLedger, deliveries>>
            /\ UNCHANGED <<pc, normVars, compareVars, scoreVars, extractVars, analyzeVars,
                           simulateVars, assistantVars, renderVars, authVars>>

\* POST /credits/webhook/stripe: the credits are the metadata of the
\* session, written from the package when the session was created.
WebhookStripe(c, payment, signatureValid, type) ==
    /\ payment.gateway = "stripe"
    /\ deliveries[payment.id] < MaxDeliveries
    /\ IF signatureValid /\ type = "checkout.session.completed"
       THEN /\ BeginAddCredits(c, PackageOf(payment.packageId).credits, "purchase", payment.id)
            /\ deliveries' = [deliveries EXCEPT ![payment.id] = @ + 1]
       ELSE /\ c \notin InFlight
            /\ creditCalls' = [creditCalls EXCEPT ![c] =
                                  [state |-> "answered",
                                   status |-> IF signatureValid THEN 200 ELSE 400]]
            /\ UNCHANGED <<credits, creditLedger, deliveries>>
            /\ UNCHANGED <<pc, normVars, compareVars, scoreVars, extractVars, analyzeVars,
                           simulateVars, assistantVars, renderVars, authVars>>

NextPayments ==
    \/ \E c \in CreditCallers : \E payment \in Payments :
           \E signatureValid \in BOOLEAN : \E packageId \in {payment.packageId, "unknown"} :
               VerifyRazorpay(c, payment, signatureValid, packageId)
    \/ \E c \in CreditCallers : \E payment \in Payments :
           \E event \in {"payment.captured", "payment.failed"} :
               WebhookRazorpay(c, payment, event)
    \/ \E c \in CreditCallers : \E payment \in Payments :
           \E signatureValid \in BOOLEAN :
               \E type \in {"checkout.session.completed", "payment_intent.created"} :
                   WebhookStripe(c, payment, signatureValid, type)
    \/ \E c \in CreditCallers : FindByIdAndUpdate(c)
    \/ \E c \in CreditCallers : CreditCreate(c)

SpecPayments == InitCredits /\ [][NextPayments]_vars

(***************************************************************************)
(* Template renderer (src/ai/responses/generator.js): renderTemplate and   *)
(* getNestedValue on the text of the template                              *)
(***************************************************************************)
MaxItems == 2          \* longest array in the data handed to renderTemplate

\* s.startsWith(sub, i - 1)
StartsWithAt(s, i, sub) ==
    i + Len(sub) - 1 <= Len(s) /\ SubSeq(s, i, i + Len(sub) - 1) = sub

\* First position from i on where sub stands in s, 0 if none.
IndexOfFrom(s, sub, i) ==
    LET found == {j \in i..(Len(s) - Len(sub) + 1) : StartsWithAt(s, j, sub)}
    IN  IF found = {} THEN 0 ELSE CHOOSE j \in found : \A k \in found : j <= k

\* Length of the run of \w characters of s that starts at i.
RECURSIVE WordRun(_, _)
WordRun(s, i) ==
    IF i <= Len(s) /\ CharAt(s, i) \in WordChars THEN 1 + WordRun(s, i + 1) ELSE 0

NoMatch == [found |-> FALSE]

\* Match of /\{\{#(\w+)\}\}([\s\S]*?)\{\{\/\1\}\}/ that starts at i: the
\* key is the whole run of word characters, the content ends at the first
\* closing tag of that key.
SectionAt(s, i) ==
    IF ~StartsWithAt(s, i, "{{#") THEN NoMatch
    ELSE LET n == WordRun(s, i + 3)
         IN  IF n = 0 \/ ~StartsWithAt(s, i + 3 + n, "}}") THEN NoMatch
             ELSE LET key     == SubSeq(s, i + 3, i + 2 + n)
                      closing == "{{/" \o key \o "}}"
                      from    == i + 5 + n
                      j       == IndexOfFrom(s, closing, from)
                  IN  IF j = 0 THEN NoMatch
                      ELSE [found |-> TRUE, key |-> key,
                            content |-> SubSeq(s, from, j - 1),
                            last |-> j + Len(closing) - 1]

\* End of the path \w+(?:\.\w+)* that starts at i, i - 1 if none starts there.
RECURSIVE PathEnd(_, _)
PathEnd(s, i) ==
    LET n == WordRun(s, i)
    IN  IF n = 0 THEN i - 1
        ELSE IF StartsWithAt(s, i + n, ".") /\ WordRun(s, i + n + 1) > 0
        THEN PathEnd(s, i + n + 1)
        ELSE i + n - 1

\* Match of /\{\{(\w+(?:\.\w+)*)\}\}/ that starts at i.
VariableAt(s, i) ==
    IF ~StartsWithAt(s, i, "{{") THEN NoMatch
    ELSE LET e == PathEnd(s, i + 2)
         IN  IF e < i + 2 \/ ~StartsWithAt(s, e + 1, "}}") THEN NoMatch
             ELSE [found |-> TRUE, path |-> SubSeq(s, i + 2, e), last |-> e + 2]

\* path.split('.')
RECURSIVE SplitPath(_)
SplitPath(path) ==
    LET dot == IndexOfFrom(path, ".", 1)
    IN  IF dot = 0 THEN <<path>>
        ELSE <<SubSeq(path, 1, dot - 1)>> \o SplitPath(SubSeq(path, dot + 1, Len(path)))

\* The decimal index that key writes, 0 if it writes none below n.
IndexOfKey(key, n) ==
    LET hits == {i \in 1..n : ToString(i - 1) = key}
    IN  IF hits = {} THEN 0 ELSE CHOOSE i \in hits : TRUE

NativeFunction(name) == [t |-> "function", v |-> name]

\* value[key] for a value that is neither null nor undefined: an own
\* property, else a member inherited from the prototype, else undefined.
Member(value, key) ==
    IF value.t = "object" /\ key \in DOMAIN value.v THEN value.v[key]
    ELSE IF value.t \in {"array", "string"} /\ key = "length" THEN JsNum(Len(value.v))
    ELSE IF value.t = "array" /\ IndexOfKey(key, Len(value.v)) > 0
    THEN value.v[IndexOfKey(key, Len(value.v))]
    ELSE IF value.t = "string" /\ IndexOfKey(key, Len(value.v)) > 0
    THEN JsStr(CharAt(value.v, IndexOfKey(key, Len(value.v))))
    ELSE IF value.t = "function" /\ key = "name" THEN JsStr(value.v)
    ELSE IF key \in ObjectPrototypeKeys
    THEN (IF key = "__proto__" THEN JsObj(<<>>)
          ELSE IF key = "constructor"
          THEN NativeFunction(CASE value.t = "object"   -> "Object"
                                [] value.t = "array"    -> "Array"
                                [] value.t = "string"   -> "String"
                                [] value.t = "number"   -> "Number"
                                [] value.t = "boolean"  -> "Boolean"
                                [] value.t = "function" -> "Function")
          ELSE NativeFunction(key))
    ELSE JsUndefined

\* current && current[key] !== undefined ? current[key] : undefined, folded
\* over the keys from position i on.
RECURSIVE NestedFrom(_, _, _)
NestedFrom(current, keys, i) ==
    IF i > Len(keys) THEN current
    ELSE NestedFrom(IF Truthy(current) THEN Member(current, keys[i]) ELSE JsUndefined,
                    keys, i + 1)

getNestedValue(obj, path) == NestedFrom(obj, SplitPath(path), 1)

\* String(value), and the text that Array.prototype.join gives an element.
RECURSIVE StringOf(_)
RECURSIVE JoinWith(_, _)
StringOf(value) ==
    CASE value.t = "string"    -> value.v
      [] value.t = "number"    -> ToString(value.v)
      [] value.t = "boolean"   -> IF value.v THEN "true" ELSE "false"
      [] value.t = "null"      -> "null"
      [] value.t = "undefined" -> "undefined"
      [] value.t = "array"     -> JoinWith(value.v, ",")
      [] value.t = "object"    -> "[object Object]"
      [] value.t = "function"  -> "function " \o value.v \o "() { [native code] }"

JoinWith(items, separator) ==
    IF Len(items) = 0 THEN ""
    ELSE (IF items[1].t \in {"null", "undefined"} THEN "" ELSE StringOf(items[1]))
         \o (IF Len(items) = 1 THEN "" ELSE separator \o JoinWith(Tail(items), separator))

\* The own enumerable properties that { ...value } copies.
SpreadFields(value) ==
    CASE value.t = "object" -> value.v
      [] value.t = "array"  -> [k \in {ToString(i - 1) : i \in 1..Len(value.v)} |->
                                   value.v[IndexOfKey(k, Len(value.v))]]
      [] value.t = "string" -> [k \in {ToString(i - 1) : i \in 1..Len(value.v)} |->
                                   JsStr(CharAt(value.v, IndexOfKey(k, Len(value.v))))]
      [] OTHER              -> <<>>

\* content.replace(/\{\{\.\}\}/g, item) for an item without $.
RECURSIVE ReplaceDot(_, _)
ReplaceDot(content, item) ==
    LET j == IndexOfFrom(content, "{{.}}", 1)
    IN  IF j = 0 THEN content
        ELSE SubSeq(content, 1, j - 1) \o StringOf(item)
             \o ReplaceDot(SubSeq(content, j + 5, Len(content)), item)

\* typeof item === 'object'
TypeofObject(item) == item.t \in {"object", "array", "null"}

RECURSIVE renderTemplate(_, _)
RECURSIVE RenderItems(_, _, _, _)
RECURSIVE ReplaceSections(_, _, _)
RECURSIVE ReplaceVariables(_, _, _)

\* value.map(item => ...).join('') from item i on.
RenderItems(content, data, items, i) ==
    IF i > Len(items) THEN ""
    ELSE (IF TypeofObject(items[i])
          THEN renderTemplate(JsStr(content),
                              JsObj(Spread(SpreadFields(data), SpreadFields(items[i])))).value.v
          ELSE ReplaceDot(content, items[i]))
         \o RenderItems(content, data, items, i + 1)

\* result.replace(sectionRegex, ...) from position i on: a match is replaced
\* and the scan goes on behind it, any other character is kept.
ReplaceSections(s, data, i) ==
    IF i > Len(s) THEN ""
    ELSE LET m == SectionAt(s, i)
         IN  IF ~m.found THEN CharAt(s, i) \o ReplaceSections(s, data, i + 1)
             ELSE LET value == Member(data, m.key)
                      replacement ==
                          IF IsArray(value)
                          THEN RenderItems(m.content, data, value.v, 1)
                          ELSE IF value.t = "object"
                          THEN renderTemplate(
                                   JsStr(m.content),
                                   JsObj(Spread(SpreadFields(data), SpreadFields(value)))).value.v
                          ELSE IF Truthy(value)
                          THEN renderTemplate(JsStr(m.content), data).value.v
                          ELSE ""
                  IN  replacement \o ReplaceSections(s, data, m.last + 1)

\* result.replace(variableRegex, ...) from position i on.
ReplaceVariables(s, data, i) ==
    IF i > Len(s) THEN ""
    ELSE LET m == VariableAt(s, i)
         IN  IF ~m.found THEN CharAt(s, i) \o ReplaceVariables(s, data, i + 1)
             ELSE LET value == getNestedValue(data, m.path)
                  IN  (IF value.t \in {"undefined", "null"} THEN ""
                       ELSE IF IsArray(value) THEN JoinWith(value.v, ", ")
                       ELSE StringOf(value))
                      \o ReplaceVariables(s, data, m.last + 1)

renderTemplate(template, data) ==
    IF ~Truthy(template) \/ ~Truthy(data)
    THEN Returned(Or(template, JsStr("")))
    ELSE IF ~IsString(template)
    THEN Thrown("TypeError: result.replace is not a function")
    ELSE Returned(JsStr(Trim(ReplaceVariables(ReplaceSections(template.v, data, 1), data, 1))))

\* The arrays of the data, by length.
StringItems(n) == JsArr([i \in 1..n |-> JsStr("s" \o ToString(i))])
ObjectItems(n) == JsArr([i \in 1..n |-> JsObj([name |-> JsStr("n" \o ToString(i)),
                                               score |-> JsNum(i - 1)])])

RenderData ==
    {JsObj([name |-> JsStr("Ann"), user |-> JsObj([name |-> JsStr("Bob")]),
            flag |-> flag, items |-> StringItems(n), rows |-> ObjectItems(n)]) :
         flag \in {JsBool(TRUE), JsBool(FALSE), JsNum(0), JsStr(""), JsNull, JsNum(7)},
         n \in 0..MaxItems}
    \cup {JsObj(<<>>), JsObj([flag |-> JsStr("{{name}}"), name |-> JsStr("Ann")]),
          JsNull, JsUndefined}

RenderTemplates ==
    {JsStr("Hi {{name}}!"),
     JsStr(" {{missing}} "),
     JsStr("{{user.name}}/{{user.age}}/{{name.first}}"),
     JsStr("{{items}} ({{items.length}})"),
     JsStr("{{#items}}{{.}}, {{/items}}"),
     JsStr("{{#rows}}{{name}}: {{score}}; {{/rows}}"),
     JsStr("{{#user}} by {{name}}{{/user}}"),
     JsStr("{{#flag}}yes {{flag}}{{/flag}}"),
     JsStr("{{#missing}}never{{/missing}}"),
     JsStr("{{#constructor}}x{{/constructor}}"),
     JsStr("{{toString}}"),
     JsStr("{{#items}}[{{#flag}}y{{/flag}}]{{/items}}"),
     JsStr("{{#flag}}{{#items}}- {{.}}{{/items}}{{/flag}}"),
     JsStr("{{#open}} {{.}} {{/shut}}"),
     JsStr(""), JsNull, JsUndefined, JsNum(5)}

InitRender ==
    /\ pc = "render"
    /\ templateArg \in RenderTemplates
    /\ dataArg \in RenderData
    /\ renderResult = Idle
    /\ NormIdle /\ CompareIdle /\ ScoreIdle /\ ExtractIdle /\ AnalyzeIdle /\ SimulateIdle
    /\ AssistantIdle /\ AuthIdle /\ CreditIdle

RenderTemplate ==
    /\ pc = "render"
    /\ renderResult' = renderTemplate(templateArg, dataArg)
    /\ pc' = "rendered"
    /\ UNCHANGED <<templateArg, dataArg>>
    /\ UNCHANGED <<normVars, compareVars, scoreVars, extractVars, analyzeVars, simulateVars,
                   assistantVars, authVars, creditVars>>

NextRender == RenderTemplate

SpecRender == InitRender /\ [][NextRender]_vars

(***************************************************************************)
(* Claims about the Skill Normalizer                                       *)
(***************************************************************************)
\* The reference of C6, written from its wording: keep the string entries
\* that are not blank, map each to its alias-table value or to its trimmed
\* self, keep the first occurrence of each result compared in lowercase.
RefKept(tokens) == SelectSeq(tokens, LAMBDA e : e.t = "string" /\ Trim(e.v) # "")

RefCanonical(token) ==
    IF ToLowerCase(Trim(token)) \in DOMAIN SKILL_ALIASES
    THEN SKILL_ALIASES[ToLowerCase(Trim(token))]
    ELSE Trim(token)

RECURSIVE RefFirstSeen(_, _)
RefFirstSeen(mapped, n) ==
    IF n = 0 THEN <<>>
    ELSE IF \E j \in 1..(n - 1) : ToLowerCase(mapped[j]) = ToLowerCase(mapped[n])
         THEN RefFirstSeen(mapped, n - 1)
         ELSE Append(RefFirstSeen(mapped, n - 1), mapped[n])

RefNormalizeSkills(tokens) ==
    LET kept   == RefKept(tokens)
        mapped == [i \in 1..Len(kept) |-> RefCanonical(kept[i].v)]
    IN  RefFirstSeen(mapped, Len(mapped))

\* C5: normalizeSkills is idempotent: for every input array the call returns,
\* and the call on the returned array returns the same list, element for
\* element.
C5_Idempotent ==
    (pc = "done" /\ IsArray(skillsArray)) =>
        (~normalized.threw /\ renormalized = normalized)

\* C6: for every input array, normalizeSkills returns the reference list
\* (non-strings and blanks dropped, alias-table value or trimmed token,
\* first occurrence per lowercase form, first-seen order).
C6_MatchesReference ==
    (pc # "normalize" /\ IsArray(skillsArray)) =>
        normalized = Returned(RefNormalizeSkills(skillsArray.v))

(***************************************************************************)
(* Claims about the Weighted Comparator                                    *)
(***************************************************************************)
Range(s) == {s[i] : i \in 1..Len(s)}

\* The requirement list as C4 reads it: the non-blank string entries,
\* trimmed, first occurrence per lowercase form, in list order.
RefDeduplicated(requirement) ==
    IF ~IsArray(requirement) THEN <<>>
    ELSE LET kept    == RefKept(requirement.v)
             trimmed == [i \in 1..Len(kept) |-> Trim(kept[i].v)]
         IN  RefFirstSeen(trimmed, Len(trimmed))

\* matched and missing split the deduplicated requirement list: disjoint
\* (also case-insensitively), jointly exhaustive, each in requirement order.
SplitsInOrder(matched, missing, requirement) ==
    LET dedup == RefDeduplicated(requirement)
    IN  /\ Range(matched) \cap Range(missing) = {}
        /\ {ToLowerCase(s) : s \in Range(matched)} \cap {ToLowerCase(s) : s \in Range(missing)} = {}
        /\ Range(matched) \cup Range(missing) = Range(dedup)
        /\ Len(matched) + Len(missing) = Len(dedup)
        /\ matched = SelectSeq(dedup, LAMBDA s : s \in Range(matched))
        /\ missing = SelectSeq(dedup, LAMBDA s : s \in Range(missing))

\* C4: for every input of compareWeightedSkills, matched and missing core
\* lists are disjoint, their union is the case-insensitively deduplicated
\* core requirement list, and both keep requirement order; likewise for the
\* optional pair.
C4_DisjointExhaustiveOrdered ==
    pc = "compared" =>
        /\ SplitsInOrder(comparison.matchedCoreSkills, comparison.missingCoreSkills, coreSkills)
        /\ SplitsInOrder(comparison.matchedOptionalSkills, comparison.missingOptionalSkills, optionalSkills)

\* Witness of C4: a core list with a case-variant duplicate whose two
\* matched skills the resume lists in the opposite order, and an optional
\* list with a duplicate and a missing skill.
C4_Witness ==
    /\ pc = "compared"
    /\ coreSkills = JsArr(<<JsStr("React"), JsStr("react "), JsStr("Node.js")>>)
    /\ resumeSkills = JsArr(<<JsStr("node.js"), JsStr("  REACT")>>)
    /\ optionalSkills = JsArr(<<JsStr("react "), JsStr("React")>>)
    /\ comparison.matchedCoreSkills = <<"React", "Node.js">>
    /\ comparison.missingCoreSkills = <<>>
    /\ comparison.matchedOptionalSkills = <<"react">>

(***************************************************************************)
(* Claims about the Score Engine                                           *)
(***************************************************************************)
\* The four fields of the argument are arrays.
WellFormedComparison ==
    /\ weightedComparison.t = "object"
    /\ \A f \in {"matchedCoreSkills", "missingCoreSkills",
                 "matchedOptionalSkills", "missingOptionalSkills"} :
           IsArray(GetField(weightedComparison, f))

MatchedCoreCount     == Len(weightedComparison.v.matchedCoreSkills.v)
MissingCoreCount     == Len(weightedComparison.v.missingCoreSkills.v)
MatchedOptionalCount == Len(weightedComparison.v.matchedOptionalSkills.v)
MissingOptionalCount == Len(weightedComparison.v.missingOptionalSkills.v)

\* The score as C2 words it: tier score matched/(matched+missing)*100, 0 for
\* an empty tier; weights 0.7/0.3, 1/0 or 0/1; one Math.round at the end.
RefTierScore(matched, missing) ==
    IF matched + missing = 0 THEN [num |-> 0, den |-> 1]
    ELSE [num |-> 100 * matched, den |-> matched + missing]

RefAtsScore(mc, xc, mo, xo) ==
    CASE mc + xc > 0 /\ mo + xo > 0 ->
             WeightedRound(RefTierScore(mc, xc), 7, RefTierScore(mo, xo), 3)
      [] mc + xc > 0 /\ mo + xo = 0 ->
             WeightedRound(RefTierScore(mc, xc), 10, RefTierScore(mo, xo), 0)
      [] mc + xc = 0 /\ mo + xo > 0 ->
             WeightedRound(RefTierScore(mc, xc), 0, RefTierScore(mo, xo), 10)
      [] OTHER -> 0

\* C2, with the weighted sum and its rounding evaluated in binary64 as
\* Math.round does: atsScore is the single rounding of coreScore*coreWeight
\* + optionalScore*optionalWeight with the weights chosen by which tiers
\* are non-empty; with both tiers empty it is 0 with the 'no skills found'
\* explanation.
C2_WeightedScore ==
    (pc = "scored" /\ WellFormedComparison) =>
        /\ scoreResult.atsScore =
               RefAtsScore(MatchedCoreCount, MissingCoreCount,
                           MatchedOptionalCount, MissingOptionalCount)
        /\ (MatchedCoreCount + MissingCoreCount + MatchedOptionalCount
                + MissingOptionalCount = 0) =>
               scoreResult = [atsScore |-> 0, explanation |->
                   "No skills found in the job description to evaluate against."]

\* Witness of C2: an optional-only comparison scored on the optional tier
\* alone (2 of 3 optional skills, no core skills: 67).
C2_Witness ==
    /\ pc = "scored"
    /\ WellFormedComparison
    /\ MatchedCoreCount + MissingCoreCount = 0
    /\ MatchedOptionalCount = 2
    /\ MissingOptionalCount = 1
    /\ scoreResult.atsScore = 67

\* C2, with the rounding as stated (round half up of the exact weighted
\* sum): atsScore is round(coreScore*coreWeight + optionalScore*optionalWeight)
\* for tier scores matched/(matched+missing)*100 and the weights chosen by
\* which tiers are non-empty; with both tiers empty it is 0 with the
\* 'no skills found' explanation.
C2_RoundHalfUp ==
    (pc = "scored" /\ WellFormedComparison) =>
        LET totalCore     == MatchedCoreCount + MissingCoreCount
            totalOptional == MatchedOptionalCount + MissingOptionalCount
            stated ==
                CASE totalCore > 0 /\ totalOptional > 0 ->
                         RoundHalfUp(7 * 100 * MatchedCoreCount * totalOptional
                                       + 3 * 100 * MatchedOptionalCount * totalCore,
                                     10 * totalCore * totalOptional)
                  [] totalCore > 0 /\ totalOptional = 0 ->
                         RoundHalfUp(100 * MatchedCoreCount, totalCore)
                  [] totalCore = 0 /\ totalOptional > 0 ->
                         RoundHalfUp(100 * MatchedOptionalCount, totalOptional)
                  [] OTHER -> 0
        IN  /\ scoreResult.atsScore = stated
            /\ (totalCore + totalOptional = 0) =>
                   scoreResult = [atsScore |-> 0, explanation |->
                       "No skills found in the job description to evaluate against."]

\* C3: for any four lists, atsScore is an integer between 0 and 100.
C3_ScoreBounds ==
    (pc = "scored" /\ WellFormedComparison) =>
        (scoreResult.atsScore \in Int /\ 0 <= scoreResult.atsScore /\ scoreResult.atsScore <= 100)

\* Witness of C3: both ends of the range are produced, here the upper one
\* from lists of the largest size.
C3_Witness ==
    /\ pc = "scored"
    /\ WellFormedComparison
    /\ MatchedCoreCount = MaxTier
    /\ MatchedOptionalCount = MaxTier
    /\ MissingCoreCount = 0
    /\ MissingOptionalCount = 0
    /\ scoreResult.atsScore = 100

(***************************************************************************)
(* Claims about the Resume Analyzer                                        *)
(***************************************************************************)
\* C1: whenever analyzeResume returns with a skill-match score below 10,
\* the final score is min(round(0.7 * skillScore + 0.3 * qualityScore), 15),
\* hence at most 15 whatever the quality score, the label is
\* "Not Relevant", and feedback.summary is the fixed relevance-override
\* text, not the summary of the skill feedback.
C1_GateCapsScore ==
    (pc = "analyzed" /\ ~analysis.threw /\ analysis.value.skillScore < 10) =>
        LET result  == analysis.value
            blended == (7 * result.skillScore + 3 * result.qualityScore + 5) \div 10
        IN  /\ result.score = IF blended < 15 THEN blended ELSE 15
            /\ result.score <= 15
            /\ result.scoreLabel = "Not Relevant"
            /\ result.feedback.summary =
                   "Your resume has poor alignment with this job description. Even with good formatting, the lack of core keywords prevents a passing score."
            /\ result.feedback.summary #
                   generateSummary(result.skillScore, result.skills.coreMatches,
                                   result.skills.missing)

\* A resume with every section and full contact details (quality 100) whose
\* only matching skill is one of four optional ones (skill score 8): the
\* blend is 36 and the returned score is 15.
C1_Witness ==
    /\ pc = "analyzed"
    /\ ~analysis.threw
    /\ analysis.value.skillScore = 8
    /\ analysis.value.qualityScore = 100
    /\ analysis.value.score = 15
    /\ analysis.value.scoreLabel = "Not Relevant"

\* C8: analyzeResume and simulateATSImprovements return a structured result
\* for every input, malformed ones included; neither call ends in an
\* exception.
C8_AlwaysStructured ==
    /\ pc = "analyzed" => ~analysis.threw /\ analysis.value.success
    /\ pc = "simulated" =>
           ~simulation.threw /\ DOMAIN simulation.value = {"currentScore", "improvements"}

(***************************************************************************)
(* Claims about the four core engines on invalid arguments                 *)
(***************************************************************************)
\* C7: normalizeSkills, extractWeightedJDSkills, compareWeightedSkills and
\* calculateWeightedATSScore, called with null, undefined or another value
\* of the wrong type (non-array fields of the comparison object included),
\* do not throw and return an empty list, {coreSkills: [], optionalSkills:
\* []}, four empty lists, and atsScore 0 respectively.
C7_ZeroValuedOnInvalid ==
    /\ pc \in {"renormalize", "done"} => normalized = Returned(<<>>)
    /\ pc = "done" => renormalized = Returned(<<>>)
    /\ pc = "extracted" => extraction = [coreSkills |-> <<>>, optionalSkills |-> <<>>]
    /\ pc = "compared" =>
           comparison = [matchedCoreSkills |-> <<>>, missingCoreSkills |-> <<>>,
                         matchedOptionalSkills |-> <<>>, missingOptionalSkills |-> <<>>]
    /\ pc = "scored" => scoreResult.atsScore = 0

\* calculateWeightedATSScore has returned for a comparison object whose
\* matchedCoreSkills is a string.
C7_Witness ==
    /\ pc = "scored"
    /\ weightedComparison.t = "object"
    /\ "matchedCoreSkills" \in DOMAIN weightedComparison.v
    /\ weightedComparison.v.matchedCoreSkills = JsStr("JavaScript")
    /\ scoreResult.atsScore = 0


(***************************************************************************)
(* Claims about the AI Assistant                                           *)
(***************************************************************************)
Has(stage) == \E i \in DOMAIN trace : trace[i] = stage

CallEnded == pc \in {"returned", "rejected"}

\* The call has ended by returning a response of the given type and success
\* flag that carries a message for the user.
ReturnedWith(type, success) ==
    /\ pc = "returned"
    /\ ~response.threw
    /\ response.value.type = type
    /\ response.value.success = success
    /\ response.value.message # ""

\* The four failure outcomes, read from the arguments and from what
\* analyzeQuery found, once the call is past the step that reports them.
InvalidInputOutcome ==
    /\ pc # "query"
    /\ ~Truthy(queryArg) \/ ~IsString(queryArg) \/ Len(Trim(queryArg.v)) = 0

OutOfScopeOutcome ==
    /\ domainResult # Idle
    /\ pc # "domain_checked"
    /\ ~domainResult.isValid

ClarificationOutcome ==
    /\ intentResult # Idle
    /\ pc # "classified"
    /\ intentResult.isValid
    /\ intentResult.needsClarification

MissingDataOutcome ==
    /\ intentResult # Idle
    /\ pc # "classified"
    /\ intentResult.isValid
    /\ ~intentResult.needsClarification
    /\ atsArg \in {JsNull, JsUndefined}
    /\ intentResult.intent \in {"SCORE_EXPLANATION", "SKILLS_GAP", "JD_MATCH",
                                "EXPERIENCE_IMPROVE", "KEYWORD_SUGGESTION",
                                "FORMATTING_FEEDBACK"}

\* The ordering part of C9: a refused query is never intent-classified, a
\* refused or clarification outcome never builds a context, decides or
\* renders, and a RESPONSE comes after the six stages in their order.
C9_StagesInOrder ==
    /\ Has("REFUSED") => ~Has("INTENT_CLASSIFIED")
    /\ (Has("REFUSED") \/ Has("CLARIFICATION")) =>
           ~(Has("CONTEXT_BUILT") \/ Has("DECIDED") \/ Has("RENDERED"))
    /\ (pc = "returned" /\ ~response.threw /\ response.value.type = "RESPONSE") =>
           trace = <<"RECEIVED", "DOMAIN_CHECK", "INTENT_CLASSIFIED",
                     "CONTEXT_BUILT", "DECIDED", "RENDERED">>

\* C9: each processQuery call is a single pass through the stages: every call
\* ends in exactly one terminal response (a returned value, never a rejected
\* promise), a refused query is never intent-classified, a refused or
\* clarification outcome never builds a context, decides or renders, and a
\* RESPONSE is returned only after domain check, intent classification,
\* context building and decision, in that order.
C9_SinglePass ==
    /\ CallEnded =>
           /\ pc = "returned"
           /\ ~response.threw
           /\ response.value.type \in {"ERROR", "DOMAIN_REFUSAL", "CLARIFICATION",
                                       "MISSING_DATA", "RESPONSE"}
    /\ C9_StagesInOrder

\* C10 as amended: the four failure outcomes are returned values, never
\* rejections, each with a message for the user: an invalid or blank query
\* returns success false with type ERROR, an out-of-scope query success false
\* with type DOMAIN_REFUSAL, a query that classifies to a data intent without
\* an ATS result success false with type MISSING_DATA, and a query that needs
\* clarification returns success true with type CLARIFICATION.
C10_FailuresAreReturnedValues ==
    /\ InvalidInputOutcome  => ReturnedWith("ERROR", FALSE)
    /\ OutOfScopeOutcome    => ReturnedWith("DOMAIN_REFUSAL", FALSE)
    /\ ClarificationOutcome => ReturnedWith("CLARIFICATION", TRUE)
    /\ MissingDataOutcome   => ReturnedWith("MISSING_DATA", FALSE)

\* A call that asked for clarification has returned.
C10_ClarificationReturned ==
    /\ ClarificationOutcome
    /\ trace = <<"RECEIVED", "DOMAIN_CHECK", "INTENT_CLASSIFIED", "CLARIFICATION">>
    /\ ReturnedWith("CLARIFICATION", TRUE)
    /\ intentResult.intent = "CLARIFICATION_NEEDED"

\* C10 as stated: each of the four failure outcomes is returned with success
\* false, a message, and the type OUT_OF_SCOPE, CLARIFICATION_NEEDED,
\* INVALID_INPUT or MISSING_DATA that names the outcome.
C10_FailureTypesAsStated ==
    /\ InvalidInputOutcome  => ReturnedWith("INVALID_INPUT", FALSE)
    /\ OutOfScopeOutcome    => ReturnedWith("OUT_OF_SCOPE", FALSE)
    /\ ClarificationOutcome => ReturnedWith("CLARIFICATION_NEEDED", FALSE)
    /\ MissingDataOutcome   => ReturnedWith("MISSING_DATA", FALSE)


(***************************************************************************)
(* Claims about the domain check and intent detection                      *)
(***************************************************************************)
\* What the claims say of a query, read from the pattern tables alone.
MatchesOffTopic(query) ==
    \E i \in 1..Len(OFF_TOPIC_INDICATORS) :
        RegexTest(OFF_TOPIC_INDICATORS[i], ToLowerCase(query))

DomainKeywordsIn(query) ==
    Cardinality({i \in 1..Len(DOMAIN_KEYWORDS) :
        Includes(ToLowerCase(query), ToLowerCase(DOMAIN_KEYWORDS[i]))})

\* The keyword density count / max(0.3 * words, 1) is at least 0.3, in exact
\* arithmetic (times 100: 100 * count >= 9 * words when 0.3 * words > 1).
DensityAtLeastThreshold(query) ==
    LET words == LongWordCount(Trim(ToLowerCase(query)))
        count == DomainKeywordsIn(query)
    IN  /\ words > 0
        /\ IF 3 * words <= 10 THEN 10 * count >= 3 ELSE 100 * count >= 9 * words

\* C11: validateDomain rejects a query whenever an off-topic pattern matches
\* it, however many domain keywords it holds, and otherwise admits it exactly
\* when the keyword density is at least 0.3 or a domain keyword is present.
C11_OffTopicFirst ==
    pc = "validated" =>
        domainResult.isValid =
            (/\ ~MatchesOffTopic(queryArg.v)
             /\ \/ DensityAtLeastThreshold(queryArg.v)
                \/ DomainKeywordsIn(queryArg.v) >= 1)

\* An off-topic query with two domain keywords or more has been rejected.
C11_OffTopicWithKeywordsRejected ==
    /\ pc = "validated"
    /\ MatchesOffTopic(queryArg.v)
    /\ DomainKeywordsIn(queryArg.v) >= 2
    /\ ~domainResult.isValid
    /\ domainResult.reason = "OFF_TOPIC"

\* The score of intent i as the claims state it, in hundredths and in exact
\* arithmetic: 15 per keyword found plus 35 per phrase pattern matched,
\* capped at the base confidence.
StatedScore(i, query) ==
    LET pattern == INTENT_PATTERNS[i]
        text    == Trim(ToLowerCase(query))
        k == Cardinality({j \in 1..Len(pattern.keywords) :
                 Includes(text, ToLowerCase(pattern.keywords[j]))})
        p == Cardinality({j \in 1..Len(pattern.phrases) :
                 RegexTest(pattern.phrases[j], text)})
    IN  IF 15 * k + 35 * p < pattern.baseConfidence.hundredths
        THEN 15 * k + 35 * p ELSE pattern.baseConfidence.hundredths

StatedScores(query) == [i \in 1..Len(INTENT_PATTERNS) |-> StatedScore(i, query)]

\* Intent i ranks before intent j: higher score, or the same score and the
\* lower priority value.
RanksBefore(stated, i, j) ==
    \/ stated[i] > stated[j]
    \/ stated[i] = stated[j] /\ INTENT_PATTERNS[i].priority < INTENT_PATTERNS[j].priority

\* The intents with a score above 0, in ranking order.
StatedRanking(stated) ==
    LET positive == {i \in 1..Len(stated) : stated[i] > 0}
        Rank(i)  == 1 + Cardinality({j \in positive : RanksBefore(stated, j, i)})
    IN  [r \in 1..Cardinality(positive) |->
            INTENT_PATTERNS[CHOOSE i \in positive : Rank(i) = r].intent]

StatedTop(stated) ==
    CHOOSE i \in 1..Len(stated) : \A j \in 1..Len(stated) : j # i => RanksBefore(stated, i, j)

ConcreteIntents == {INTENT_PATTERNS[i].intent : i \in 1..Len(INTENT_PATTERNS)}

IsAmbiguous(query) ==
    \E i \in 1..Len(AMBIGUOUS_PATTERNS) :
        RegexTest(AMBIGUOUS_PATTERNS[i], Trim(ToLowerCase(query)))

\* C12: whenever detectIntent returns a concrete intent, it is the intent
\* whose score (0.15 per keyword plus 0.35 per phrase pattern, capped at the
\* base confidence) is the highest and, among the intents tied at that
\* score, the one of lowest priority value, and the returned confidence is
\* that score (compared to two decimals).
C12_HighestScoreLowestPriority ==
    (pc = "detected" /\ intentResult.intent \in ConcreteIntents) =>
        Bind(StatedScores(queryArg.v), LAMBDA stated :
            /\ intentResult.intent = INTENT_PATTERNS[StatedTop(stated)].intent
            /\ intentResult.confidence.hundredths = stated[StatedTop(stated)])

\* C13: detectIntent returns a concrete intent only when the winning score
\* is at least 0.6; a scored query whose winning score is below 0.6 yields
\* CLARIFICATION_NEEDED with the first two (or the only one) of the intents
\* that scored above 0, in ranking order, or UNKNOWN when none scored above
\* 0; needsClarification is true exactly when no concrete intent is returned.
C13_ThresholdAndCandidates ==
    pc = "detected" =>
        Bind(StatedScores(queryArg.v), LAMBDA stated :
        Bind(StatedRanking(stated), LAMBDA ranking :
            /\ intentResult.needsClarification = (intentResult.intent \notin ConcreteIntents)
            /\ intentResult.intent \in ConcreteIntents \cup {"CLARIFICATION_NEEDED", "UNKNOWN"}
            /\ intentResult.intent \in ConcreteIntents =>
                   stated[StatedTop(stated)] >= 60
            /\ "possibleIntents" \in DOMAIN intentResult =>
                   /\ intentResult.intent = "CLARIFICATION_NEEDED"
                   /\ Len(intentResult.possibleIntents) \in 1..2
                   /\ intentResult.possibleIntents =
                          SubSeq(ranking, 1, Len(intentResult.possibleIntents))
            /\ intentResult.intent = "UNKNOWN" => ranking = <<>>
            /\ ~IsAmbiguous(queryArg.v) =>
                   /\ stated[StatedTop(stated)] >= 60 => intentResult.intent \in ConcreteIntents
                   /\ (stated[StatedTop(stated)] < 60 /\ ranking # <<>>) =>
                          /\ intentResult.intent = "CLARIFICATION_NEEDED"
                          /\ intentResult.possibleIntents =
                                 SubSeq(ranking, 1, IF Len(ranking) < 2 THEN Len(ranking) ELSE 2)
                   /\ ranking = <<>> => intentResult.intent = "UNKNOWN"))

\* A query whose best intent scored 0.5 was answered with a clarification
\* request that names two candidates.
C13_JustBelowThreshold ==
    /\ pc = "detected"
    /\ intentResult.intent = "CLARIFICATION_NEEDED"
    /\ "possibleIntents" \in DOMAIN intentResult
    /\ Len(intentResult.possibleIntents) = 2
    /\ intentResult.confidence.hundredths = 50

\* The bare ambiguous queries of C14, compared in lower case.
InAmbiguousSet(query) ==
    ToLowerCase(query) \in {"help", "improve", "better", "fix", "what now", "how now"}

\* C14: every bare ambiguous query yields a clarification request from
\* detectIntent, from analyzeQuery and from processQuery.
C14_AmbiguousAlwaysClarifies ==
    (IsString(queryArg) /\ InAmbiguousSet(queryArg.v)) =>
        /\ detectIntent(queryArg.v).needsClarification
        /\ intentResult # Idle =>
               (intentResult.isValid /\ intentResult.needsClarification)
        /\ pc = "returned" =>
               (~response.threw /\ response.value.type = "CLARIFICATION")


(***************************************************************************)
(* Claims about the context builder                                        *)
(***************************************************************************)
\* The context fields that carry a number of the ATS result, and those that
\* carry an array, as <<context field, ATS field>>.
CarriedNumbers(intent) ==
    CASE intent = "SCORE_EXPLANATION"   -> {<<"overallScore", "atsScore">>}
      [] intent = "JD_MATCH"            -> {<<"overallMatch", "atsScore">>}
      [] intent = "EXPERIENCE_IMPROVE"  -> {<<"experienceScore", "experienceScore">>}
      [] intent = "FORMATTING_FEEDBACK" -> {<<"formatScore", "formatScore">>}
      [] intent \in {"SKILLS_GAP", "KEYWORD_SUGGESTION", "RESUME_REWRITE"} -> {}
      [] OTHER                          -> {<<"overallScore", "atsScore">>}

CarriedArrays(intent) ==
    CASE intent = "SKILLS_GAP" ->
             {<<"matchedCoreSkills", "matchedCoreSkills">>,
              <<"missingCoreSkills", "missingCoreSkills">>,
              <<"matchedOptionalSkills", "matchedOptionalSkills">>,
              <<"missingOptionalSkills", "missingOptionalSkills">>}
      [] intent = "JD_MATCH" ->
             {<<"matchedSkills", "matchedCoreSkills">>, <<"missingSkills", "missingCoreSkills">>}
      [] intent \in {"EXPERIENCE_IMPROVE", "RESUME_REWRITE"} -> {<<"weakVerbs", "weakVerbs">>}
      [] intent = "KEYWORD_SUGGESTION"  -> {<<"alreadyPresent", "matchedCoreSkills">>}
      [] intent = "FORMATTING_FEEDBACK" -> {<<"formatIssues", "formatIssues">>}
      [] OTHER -> {}

\* The context has the fields of the context built from the empty result.
SameFieldsAsEmpty ==
    DOMAIN context.value =
        DOMAIN buildContext(JsObj(<<>>), intentResult.intent, queryArg.v).value

\* A number of the ATS result is carried over as it is; an absent one is 0
\* or null.
NumbersCarried ==
    \A pair \in CarriedNumbers(intentResult.intent) :
        /\ pair[1] \in DOMAIN context.value
        /\ IF GetField(atsArg, pair[2]).t = "number"
           THEN context.value[pair[1]] = GetField(atsArg, pair[2])
           ELSE context.value[pair[1]] \in {JsNum(0), JsNull}

\* An array of the ATS result is carried over; an absent one is empty.
ArraysCarried ==
    \A pair \in CarriedArrays(intentResult.intent) :
        /\ pair[1] \in DOMAIN context.value
        /\ IF GetField(atsArg, pair[2]).t = "array"
           THEN context.value[pair[1]] = GetField(atsArg, pair[2])
           ELSE context.value[pair[1]] = JsArr(<<>>)

\* C15: for each intent buildContext returns a context with the same set of
\* fields for every ATS result object; an absent number appears as 0 or
\* null, an absent array as the empty array, and a number that is present
\* (0 included) is carried over unchanged.
C15_NoFieldOmitted ==
    pc = "built" =>
        /\ ~context.threw
        /\ SameFieldsAsEmpty
        /\ NumbersCarried
        /\ ArraysCarried


(***************************************************************************)
(* Claims about concurrent calls                                           *)
(***************************************************************************)
Answered(c) == pc[c] \in {"done", "edited"}

\* C16: calls are independent and stateless: under any interleaving each
\* caller receives exactly what its call returns when it runs alone (so that
\* identical input gives identical output), and the object returned to one
\* caller is neither an object of the module nor the object returned to
\* another caller, and is changed by no one but the caller itself.
C16_CallsAreIndependent ==
    \A c \in Callers :
        Answered(c) =>
            Bind(processQuery(queryArg[c], atsArg[c]), LAMBDA alone :
                IF alone.threw THEN response[c] = alone
                ELSE /\ ~response[c].threw
                     /\ response[c].received = alone.value
                     /\ response[c].ref \notin ModuleObjects
                     /\ \A d \in Callers \ {c} :
                            (Answered(d) /\ ~response[d].threw) =>
                                response[d].ref # response[c].ref
                     /\ pc[c] = "done" => heap[response[c].ref] = response[c].received)


(***************************************************************************)
(* Claims about the ungated branch of analyzeResume                        *)
(***************************************************************************)
\* C17: whenever analyzeResume returns with a skill-match score of 10 or
\* more, the final score is round(0.7 * skillScore + 0.3 * qualityScore),
\* the label is the band of that final score (Excellent from 80, Good from
\* 60, Fair from 40, else Needs Work), and feedback.summary is the summary
\* of the skill feedback.
C17_BlendAndBands ==
    (pc = "analyzed" /\ ~analysis.threw /\ analysis.value.skillScore >= 10) =>
        LET result  == analysis.value
            blended == (7 * result.skillScore + 3 * result.qualityScore + 5) \div 10
        IN  /\ result.score = blended
            /\ result.scoreLabel =
                   (IF blended >= 80 THEN "Excellent Match"
                    ELSE IF blended >= 60 THEN "Good Match"
                    ELSE IF blended >= 40 THEN "Fair Match"
                    ELSE "Needs Work")
            /\ result.feedback.summary =
                   generateSummary(result.skillScore, result.skills.coreMatches,
                                   result.skills.missing)

(***************************************************************************)
(* Claims about the job-description skill extractor                        *)
(***************************************************************************)
\* The chunks of the job text under examination.
JobChunks == IF IsString(jobText) THEN SplitLines(jobText.v) ELSE <<>>

HasCoreTrigger(chunk) ==
    \E k \in 1..Len(CORE_KEYWORDS) : Includes(ToLowerCase(chunk), CORE_KEYWORDS[k])

HasOptionalTrigger(chunk) ==
    \E k \in 1..Len(OPTIONAL_KEYWORDS) : Includes(ToLowerCase(chunk), OPTIONAL_KEYWORDS[k])

\* The known skills that appear in the chunk as a whole word, in any case.
SeenIn(chunk) ==
    {SKILL_LIST[k] : k \in {j \in 1..Len(SKILL_LIST) :
                               TestWholeWord(ToLowerCase(SKILL_LIST[j]), ToLowerCase(chunk))}}

SeenSkills == UNION {SeenIn(JobChunks[n]) : n \in 1..Len(JobChunks)}

\* Skills of the chunks with a core trigger, an optional trigger or not.
ClassifiedCore ==
    UNION {SeenIn(JobChunks[n]) : n \in {m \in 1..Len(JobChunks) : HasCoreTrigger(JobChunks[m])}}

\* Skills of the chunks with an optional trigger and no core trigger.
ClassifiedOptional ==
    UNION {SeenIn(JobChunks[n]) : n \in {m \in 1..Len(JobChunks) :
                                         /\ HasOptionalTrigger(JobChunks[m])
                                         /\ ~HasCoreTrigger(JobChunks[m])}}

ReturnedCore == {extraction.coreSkills[i] : i \in 1..Len(extraction.coreSkills)}

ReturnedOptional == {extraction.optionalSkills[i] : i \in 1..Len(extraction.optionalSkills)}

\* C18: no skill is returned in both coreSkills and optionalSkills, and a
\* skill that some chunk with a core trigger holds (a chunk with both
\* triggers included) is never returned in optionalSkills, whatever the
\* other chunks say.
C18_CoreWins ==
    pc = "extracted" =>
        /\ ReturnedCore \cap ReturnedOptional = {}
        /\ ClassifiedCore \cap ReturnedOptional = {}
        /\ \A i, j \in 1..Len(extraction.coreSkills) :
               extraction.coreSkills[i] = extraction.coreSkills[j] => i = j
        /\ \A i, j \in 1..Len(extraction.optionalSkills) :
               extraction.optionalSkills[i] = extraction.optionalSkills[j] => i = j

\* Witness of C18: Python stands in a chunk with both triggers and in a
\* chunk with an optional trigger only, and is returned as core alone.
C18_BothTriggersThenOptional ==
    /\ pc = "extracted"
    /\ \E n \in 1..Len(JobChunks) :
           /\ HasCoreTrigger(JobChunks[n]) /\ HasOptionalTrigger(JobChunks[n])
           /\ "Python" \in SeenIn(JobChunks[n])
    /\ \E n \in 1..Len(JobChunks) :
           /\ ~HasCoreTrigger(JobChunks[n]) /\ HasOptionalTrigger(JobChunks[n])
           /\ "Python" \in SeenIn(JobChunks[n])
    /\ "Python" \in ReturnedCore
    /\ "Python" \notin ReturnedOptional
    /\ ReturnedOptional # {}

\* C19: when no chunk classified a skill, every skill seen is returned as
\* core and optionalSkills is empty; when some chunk did, coreSkills holds
\* the skills of the core chunks and optionalSkills the skills of the
\* optional chunks that no core chunk holds, and nothing else.
C19_FallbackExactly ==
    pc = "extracted" =>
        IF ClassifiedCore \cup ClassifiedOptional = {}
        THEN /\ ReturnedCore = SeenSkills
             /\ extraction.optionalSkills = <<>>
        ELSE /\ ReturnedCore = ClassifiedCore
             /\ ReturnedOptional = ClassifiedOptional \ ClassifiedCore

\* Witness of C19: a text with a trigger phrase in a chunk without skills
\* and skills in a chunk without trigger: all the skills seen are core.
C19_UntaggedListIsCore ==
    /\ pc = "extracted"
    /\ \E n \in 1..Len(JobChunks) : HasCoreTrigger(JobChunks[n])
    /\ ClassifiedCore \cup ClassifiedOptional = {}
    /\ extraction.coreSkills = <<"React", "Redis">>
    /\ extraction.optionalSkills = <<>>

\* Witness of C19, second half: with a classified chunk in the text, the
\* skills of a chunk without trigger are returned in neither list.
C19_UnclassifiedLeftOut ==
    /\ pc = "extracted"
    /\ ClassifiedOptional # {}
    /\ "Redis" \in SeenSkills
    /\ "Redis" \notin ReturnedCore \cup ReturnedOptional


(***************************************************************************)
(* Claims about the four lists of the Weighted Comparator                  *)
(***************************************************************************)
\* The skills of a returned list, compared without regard to letter case.
KeysOf(list) == {ToLowerCase(list[i]) : i \in 1..Len(list)}

\* No two entries of the list are the same skill in any letter case.
NoCaseDuplicates(list) ==
    \A i, j \in 1..Len(list) : ToLowerCase(list[i]) = ToLowerCase(list[j]) => i = j

\* C20: for every input, the core and optional requirement lists sharing
\* skills or not, the four returned lists are pairwise disjoint and none
\* holds the same skill twice in any letter case.
C20_FourListsDisjoint ==
    pc = "compared" =>
        LET lists == <<comparison.matchedCoreSkills, comparison.missingCoreSkills,
                       comparison.matchedOptionalSkills, comparison.missingOptionalSkills>>
        IN  /\ \A a, b \in 1..4 : a # b => KeysOf(lists[a]) \cap KeysOf(lists[b]) = {}
            /\ \A a \in 1..4 : NoCaseDuplicates(lists[a])

(***************************************************************************)
(* Claims about matching in the Weighted Comparator                        *)
(***************************************************************************)
\* The lowercase, trimmed forms of the non-blank string entries of a list.
PlainKeys(list) ==
    {ToLowerCase(Trim(list.v[i].v)) :
         i \in {j \in 1..Len(list.v) : IsString(list.v[j]) /\ Trim(list.v[j].v) # ""}}

\* C21: a requirement is returned as matched exactly when its lowercase,
\* trimmed form is that of a non-blank string entry of resumeSkills, and as
\* missing otherwise; aliases of a skill are different skills.
C21_MatchByCaseAndTrimOnly ==
    pc = "compared" =>
        /\ KeysOf(comparison.matchedCoreSkills)
               = PlainKeys(coreSkills) \cap PlainKeys(resumeSkills)
        /\ KeysOf(comparison.missingCoreSkills)
               = PlainKeys(coreSkills) \ PlainKeys(resumeSkills)
        /\ KeysOf(comparison.matchedOptionalSkills)
               = PlainKeys(optionalSkills) \cap PlainKeys(resumeSkills)
        /\ KeysOf(comparison.missingOptionalSkills)
               = PlainKeys(optionalSkills) \ PlainKeys(resumeSkills)

\* Witness of C21: the resume lists js; the requirement js matches it in
\* spite of its blanks, the requirement JavaScript does not.
C21_AliasDoesNotMatch ==
    /\ pc = "compared"
    /\ resumeSkills = JsArr(<<JsStr("js")>>)
    /\ coreSkills = JsArr(<<JsStr("JavaScript"), JsStr(" js ")>>)
    /\ comparison.matchedCoreSkills = <<"js">>
    /\ comparison.missingCoreSkills = <<"JavaScript">>


(***************************************************************************)
(* Claims about the Improvement Simulator                                  *)
(***************************************************************************)
\* The comparison that the simulator input was built from.
ComparisonOf(input) ==
    [t |-> "object",
     v |-> [matchedCoreSkills     |-> input.v.matchedCoreSkills,
            missingCoreSkills     |-> input.v.missingCoreSkills,
            matchedOptionalSkills |-> input.v.matchedOptionalSkills,
            missingOptionalSkills |-> input.v.missingOptionalSkills]]

\* C22: for an input whose coreSkills and optionalSkills are matched plus
\* missing of each tier, currentScore rounded to an integer is the atsScore
\* that calculateWeightedATSScore returns for the same lists, empty tiers
\* included.
C22_SameWeightingAsScoreEngine ==
    (pc = "simulated" /\ simulatorArg \in ConsistentInputs) =>
        /\ ~simulation.threw
        /\ RoundHalfUp(simulation.value.currentScore.v, 100)
               = calculateWeightedATSScore(ComparisonOf(simulatorArg)).atsScore


\* The simulator's score for the given counts in hundredths: 70 for the
\* share of core skills matched plus 30 for the share of optional skills
\* matched, a tier without skills counting as fully matched.
RefSimulatorScore(matchedCore, totalCore, matchedOptional, totalOptional) ==
    LET core     == IF totalCore > 0 THEN <<matchedCore, totalCore>> ELSE <<1, 1>>
        optional == IF totalOptional > 0 THEN <<matchedOptional, totalOptional>> ELSE <<1, 1>>
    IN  RoundHalfUp(7000 * core[1] * optional[2] + 3000 * optional[1] * core[2],
                    core[2] * optional[2])

\* C23: on a consistent input the improvements are one per missing skill,
\* core or optional; each newScore is the score with one more skill of its
\* tier matched and nothing else changed; the list is in order of
\* non-increasing gain, and of two entries with the same gain an optional
\* one never precedes a core one.
C23_OnePerMissingSkillInGainOrder ==
    (pc = "simulated" /\ simulatorArg \in ConsistentInputs \cup TiedInputs) =>
        /\ ~simulation.threw
        /\ LET input        == simulatorArg.v
               improvements == simulation.value.improvements
               missingCore  == Range(input.missingCoreSkills.v)
               missingOpt   == Range(input.missingOptionalSkills.v)
               totalCore    == Len(input.coreSkills.v)
               totalOpt     == Len(input.optionalSkills.v)
               matchedCore  == Len(input.matchedCoreSkills.v)
               matchedOpt   == Len(input.matchedOptionalSkills.v)
               current      == simulation.value.currentScore.v
               IsCore(i)    == improvements[i].skill \in missingCore
               Gain(i)      == improvements[i].newScore.v - current
           IN  /\ Len(improvements) = Len(input.missingCoreSkills.v)
                                        + Len(input.missingOptionalSkills.v)
               /\ {improvements[i].skill : i \in 1..Len(improvements)}
                      = missingCore \cup missingOpt
               /\ \A i, j \in 1..Len(improvements) :
                      improvements[i].skill = improvements[j].skill => i = j
               /\ current = RefSimulatorScore(matchedCore, totalCore, matchedOpt, totalOpt)
               /\ \A i \in 1..Len(improvements) :
                      improvements[i].newScore.v =
                          IF IsCore(i)
                          THEN RefSimulatorScore(matchedCore + 1, totalCore, matchedOpt, totalOpt)
                          ELSE RefSimulatorScore(matchedCore, totalCore, matchedOpt + 1, totalOpt)
               /\ \A i, j \in 1..Len(improvements) :
                      i < j => /\ Gain(i) >= Gain(j)
                               /\ Gain(i) = Gain(j) => ~(~IsCore(i) /\ IsCore(j))

\* Witness of C23: seven core and three optional skills, where one more
\* core skill and one more optional skill both gain 10 points; the two
\* missing core skills come before the two missing optional skills.
C23_EqualGainCoreFirst ==
    /\ pc = "simulated"
    /\ simulatorArg \in TiedInputs
    /\ Len(simulatorArg.v.missingCoreSkills.v) = 2
    /\ Len(simulatorArg.v.missingOptionalSkills.v) = 2
    /\ simulation.value.currentScore = JsNum(6000)
    /\ simulation.value.improvements =
           <<[skill |-> JsStr("core6"), newScore |-> JsNum(7000)],
             [skill |-> JsStr("core7"), newScore |-> JsNum(7000)],
             [skill |-> JsStr("optional2"), newScore |-> JsNum(7000)],
             [skill |-> JsStr("optional3"), newScore |-> JsNum(7000)]>>

(***************************************************************************)
(* Claims about the analysis as the assistant's ATS result                 *)
(***************************************************************************)
\* C24: the context built from the object that analyzeResume returned
\* reports the analysis's own values: the final score as overallScore
\* (overallMatch), the matched core skills and the missing core skills.
C24_ContextReportsAnalysis ==
    (pc = "built" /\ ~analysis.threw /\ ~context.threw) =>
        LET result == analysis.value
            ctx    == context.value
        IN  /\ intentResult.intent = "SCORE_EXPLANATION" =>
                   ctx.overallScore = JsNum(result.score)
            /\ intentResult.intent = "JD_MATCH" =>
                   /\ ctx.overallMatch = JsNum(result.score)
                   /\ ctx.matchedSkills = AsJsArray(result.skills.coreMatches)
                   /\ ctx.missingSkills = AsJsArray(result.skills.missing)
            /\ intentResult.intent = "SKILLS_GAP" =>
                   /\ ctx.matchedCoreSkills = AsJsArray(result.skills.coreMatches)
                   /\ ctx.missingCoreSkills = AsJsArray(result.skills.missing)

(***************************************************************************)
(* Claims about the terms of the known-skill list                          *)
(***************************************************************************)
\* The term of the job text under examination: what follows "Required: ".
TermOfText == SubSeq(jobText.v, Len("Required: ") + 1, Len(jobText.v))

\* C25: for every term of SKILL_LIST, the job text made of a core trigger
\* phrase followed by the term returns the term in coreSkills.
C25_EveryTermExtractable ==
    pc = "extracted" => TermOfText \in ReturnedCore

(***************************************************************************)
(* Claims about the decision for SKILLS_GAP                                *)
(***************************************************************************)
\* C27: the urgency decided for a SKILLS_GAP context is HIGH with more than
\* 3 missing core skills, MEDIUM with 1 to 3 and LOW with none, counting
\* all the missing core skills of the context.
C27_UrgencyByMissingCore ==
    (context # Idle /\ decision # Idle /\ context.type = "SKILLS_GAP") =>
        LET missing == Len(context.missingCoreSkills.v)
        IN  decision.urgency = IF missing > 3 THEN "HIGH"
                               ELSE IF missing >= 1 THEN "MEDIUM"
                               ELSE "LOW"

\* Witness of C27: four core skills are missing, the focus list holds three
\* of them, and the urgency is HIGH.
C27_FourMissingIsHigh ==
    /\ context # Idle /\ decision # Idle
    /\ context.type = "SKILLS_GAP"
    /\ Len(context.missingCoreSkills.v) = 4
    /\ Len(decision.primaryFocus.v) = 3
    /\ decision.urgency = "HIGH"

(***************************************************************************)
(* Claims about refresh-token rotation                                     *)
(***************************************************************************)
\* C28: refresh tokens rotate.  The refresh token stored for the user is
\* never a token that a successful refresh has already exchanged or that was
\* handed out before a logout, and no refresh that presents such a token is
\* answered with status 200.
C28_RefreshTokensRotate ==
    /\ userRefreshToken \notin revokedTokens
    /\ (authResponse # Idle /\ authResponse.status = 200) => ~authResponse.replayed

(***************************************************************************)
(* Claims about the credit balance                                         *)
(***************************************************************************)
RECURSIVE SumAmounts(_)
SumAmounts(ledger) ==
    IF ledger = <<>> THEN 0 ELSE ledger[1].amount + SumAmounts(Tail(ledger))

\* C29: whenever no call of deductCredits or addCredits is in flight, the
\* balance is not negative and equals the starting balance plus the sum of
\* the amounts of the Credit documents.
C29_BalanceIsLedgerSum ==
    (InFlight = {}) =>
        /\ credits >= 0
        /\ credits = StartCredits + SumAmounts(creditLedger)

\* Credits of the packages of the payments in S that have a Credit document.
RECURSIVE PurchasedCredits(_)
PurchasedCredits(S) ==
    IF S = {} THEN 0
    ELSE LET p == CHOOSE q \in S : TRUE
         IN  (IF \E i \in 1..Len(creditLedger) : creditLedger[i].paymentId = p.id
              THEN PackageOf(p.packageId).credits ELSE 0)
             + PurchasedCredits(S \ {p})

\* C30: each payment has at most one Credit document, and when no call is
\* in flight the balance is the starting balance plus, once for each payment
\* credited, the credits of its package.
C30_CreditedAtMostOnce ==
    /\ \A id \in PaymentIds :
           Cardinality({i \in 1..Len(creditLedger) : creditLedger[i].paymentId = id}) <= 1
    /\ (InFlight = {}) => credits = StartCredits + PurchasedCredits(Payments)

(***************************************************************************)
(* Claims about the template renderer                                      *)
(***************************************************************************)
\* value[key] counting own properties only; nothing has a property when
\* the value is null or undefined.
OwnMember(value, key) ==
    IF value.t = "object" /\ key \in DOMAIN value.v THEN value.v[key]
    ELSE IF value.t \in {"array", "string"} /\ key = "length" THEN JsNum(Len(value.v))
    ELSE IF value.t = "array" /\ IndexOfKey(key, Len(value.v)) > 0
    THEN value.v[IndexOfKey(key, Len(value.v))]
    ELSE IF value.t = "string" /\ IndexOfKey(key, Len(value.v)) > 0
    THEN JsStr(CharAt(value.v, IndexOfKey(key, Len(value.v))))
    ELSE JsUndefined

RECURSIVE OwnNested(_, _, _)
OwnNested(current, keys, i) ==
    IF i > Len(keys) THEN current
    ELSE OwnNested(OwnMember(current, keys[i]), keys, i + 1)

NoItem == [t |-> "none"]

\* The grammar as the specification words it, read left to right from
\* position i: a section renders its body per element, per object or per
\* truthy scalar in the scope it opens, a variable renders its value, "{{.}}"
\* renders the element at hand, any other character renders as itself.
RECURSIVE RefText(_, _, _, _)
RECURSIVE RefItems(_, _, _, _)
RefItems(content, scope, items, i) ==
    IF i > Len(items) THEN ""
    ELSE (IF items[i].t = "object"
          THEN RefText(content, JsObj(Spread(SpreadFields(scope), items[i].v)), NoItem, 1)
          ELSE RefText(content, scope, items[i], 1))
         \o RefItems(content, scope, items, i + 1)

RefText(s, scope, item, i) ==
    IF i > Len(s) THEN ""
    ELSE IF SectionAt(s, i).found
    THEN LET m     == SectionAt(s, i)
             value == OwnMember(scope, m.key)
         IN  (IF IsArray(value) THEN RefItems(m.content, scope, value.v, 1)
              ELSE IF value.t = "object"
              THEN RefText(m.content, JsObj(Spread(SpreadFields(scope), value.v)), item, 1)
              ELSE IF Truthy(value) THEN RefText(m.content, scope, item, 1)
              ELSE "")
             \o RefText(s, scope, item, m.last + 1)
    ELSE IF item # NoItem /\ StartsWithAt(s, i, "{{.}}")
    THEN StringOf(item) \o RefText(s, scope, item, i + 5)
    ELSE IF VariableAt(s, i).found
    THEN LET m     == VariableAt(s, i)
             value == OwnNested(scope, SplitPath(m.path), 1)
         IN  (IF value.t \in {"undefined", "null"} THEN ""
              ELSE IF IsArray(value) THEN JoinWith(value.v, ", ")
              ELSE StringOf(value))
             \o RefText(s, scope, item, m.last + 1)
    ELSE CharAt(s, i) \o RefText(s, scope, item, i + 1)

RefRender(template, data) == Trim(RefText(template, data, NoItem, 1))

\* C26: renderTemplate never throws, and for a template that is a string
\* it returns the text that the grammar gives: sections per element, object
\* or truthy scalar, nothing for an absent or falsy key, nothing for a
\* variable without a value.
C26_TotalAndGeneric ==
    (pc = "rendered") =>
        /\ ~renderResult.threw
        /\ IsString(templateArg) => renderResult.value = JsStr(RefRender(templateArg.v, dataArg))

====
